---- MODULE Spec2Model ----
(***************************************************************************)
(* Model of timely-pass: the encrypted, file-backed secret store           *)
(* (timely-pass-sdk/src/store.rs, crypto.rs), the policy engine            *)
(* (eval.rs, policy.rs) and the CLI entry points that call them            *)
(* (timely-pass-cli/src/commands.rs).                                      *)
(*                                                                         *)
(* A file is a sequence of cells.  The container written by save() is      *)
(*   << header_len, version, salt, nonce, ciphertext, tag >>               *)
(* where << version, salt >> are the header bytes, and the last three      *)
(* cells are the encrypted payload.  Key derivation and the AEAD are       *)
(* ideal: a key is the pair (passphrase, salt), a ciphertext and a tag are *)
(* terms over what they were computed from, and a tampered cell carries    *)
(* the XOR mask that was applied to it.                                    *)
(***************************************************************************)
EXTENDS Integers, Sequences, FiniteSets, TLC

(***************************************************************************)
(* Bounds of the model.                                                    *)
(***************************************************************************)
MaxUsage == 1
MaxTime == 1
MaxFail == 1

CredIds == {"c1", "c2"}
PolicyIds == {"p1"}
Passphrases == {"pw1", "pw2"}
InitPassphrases == {"pw1"}
FreshSalts == {1}
FreshNonces == {0}
TamperBits == {0, 2}

(***************************************************************************)
(* Program constants.                                                      *)
(***************************************************************************)
\* crypto.rs: NONCE_LEN, counted in cells (the 24 nonce bytes are one cell).
NONCE_LEN == 1
\* store.rs save(): StoreHeader { version: 1, .. }
STORE_VERSION == 1

NoneStr == "None"
NoneInt == -1

VARIABLES store, disk, now, last, saved, nfail,
          evalIn, evalOut

storeVars == <<store, disk, now, last, saved, nfail>>
evalVars == <<evalIn, evalOut>>
vars == <<store, disk, now, last, saved, nfail, evalIn, evalOut>>

(***************************************************************************)
(* Maps (HashMap<String, _>).                                              *)
(***************************************************************************)
EmptyMap == [k \in {} |-> k]

\* Faulty variant of Insert: an entry that is already present is kept.
Insert_keeping_old(m, k, v) ==
    [x \in (DOMAIN m) \cup {k} |-> IF x \in DOMAIN m THEN m[x] ELSE v]

\* HashMap::insert: the entry under k is created or replaced.
Insert(m, k, v) == [x \in (DOMAIN m) \cup {k} |-> IF x = k THEN v ELSE m[x]]

\* Faulty variant of Remove: every entry is dropped.
Remove_all(m, k) == [x \in {} |-> x]

\* HashMap::remove.
Remove(m, k) == [x \in (DOMAIN m) \ {k} |-> m[x]]

\* The orders in which a HashMap over the key set S may be iterated.
Orders(S) ==
    {s \in [1..Cardinality(S) -> S] : \A i, j \in 1..Cardinality(S) : i # j => s[i] # s[j]}

FlipBit(n, b) == IF (n \div (2 ^ b)) % 2 = 1 THEN n - 2 ^ b ELSE n + 2 ^ b

(***************************************************************************)
(* Data model: store.rs Credential, policy.rs Policy.                      *)
(***************************************************************************)
\* Credential::new, with the id set by the caller as commands::add does.
NewCredential(id, data, pid, t) ==
    [id |-> id, label |-> id, tags |-> <<>>, created_at |-> t, updated_at |-> t,
     policy_id |-> pid, secret |-> [type_ |-> "Password", data |-> data],
     usage_counter |-> 0]

\* Policy::default / Policy::new followed by add_hook.
NewPolicy(id, hooks, single, max) ==
    [id |-> id, hooks |-> hooks, timezone |-> "UTC", clock_skew_secs |-> 60,
     max_attempts |-> max, single_use |-> single, version |-> 1]

(***************************************************************************)
(* crypto.rs                                                               *)
(***************************************************************************)
\* SaltString::from_b64 accepts a salt only if it is a valid B64 string; a
\* salt written by save() has its high bit clear.
ValidSalt(s) == s \in 0..3

\* MasterKey::derive_from_passphrase with Some(salt).
derive_from_passphrase(passphrase, salt) ==
    IF ValidSalt(salt)
    THEN [ok |-> TRUE, err |-> "", key |-> [p |-> passphrase, s |-> salt], salt |-> salt]
    ELSE [ok |-> FALSE, err |-> "Crypto(Invalid salt)", key |-> [p |-> "", s |-> 0], salt |-> salt]

\* Faulty variant of Mac: the tag does not cover the associated data.
Mac_without_aad(key, nonce, aad, ct) ==
    [k |-> key, n |-> nonce, aad |-> <<>>, ct |-> ct, x |-> 0]

\* The Poly1305 tag over (key, nonce, associated data, ciphertext).
Mac(key, nonce, aad, ct) == [k |-> key, n |-> nonce, aad |-> aad, ct |-> ct, x |-> 0]

\* MasterKey::encrypt: nonce || ciphertext || tag.
encrypt(key, plaintext, associated_data, nonce) ==
    LET ct == [k |-> key, n |-> nonce, pt |-> plaintext, x |-> 0]
    IN <<nonce, ct, Mac(key, nonce, associated_data, ct)>>

\* Bytes that are the encoding of no payload.
Garbage == [credentials |-> <<>>, policies |-> <<<<"?", <<"?", <<"?">>>>>>>>]

\* The XChaCha20 keystream applied to a ciphertext: the plaintext under the
\* key and nonce it was encrypted with, garbage otherwise.
Plain(key, nonce, ct) ==
    IF ct.k = key /\ ct.n = nonce /\ ct.x = 0 THEN ct.pt ELSE Garbage

\* Faulty variant of decrypt: the tag is not verified.
decrypt_unauthenticated(key, ciphertext_with_nonce, associated_data) ==
    IF Len(ciphertext_with_nonce) < NONCE_LEN
    THEN [ok |-> FALSE, err |-> "Crypto(Ciphertext too short)", pt |-> <<>>]
    ELSE LET nonce == ciphertext_with_nonce[1]
             rest == SubSeq(ciphertext_with_nonce, NONCE_LEN + 1, Len(ciphertext_with_nonce))
         IN IF Len(rest) < 2
            THEN [ok |-> FALSE, err |-> "Crypto(Decryption failed)", pt |-> <<>>]
            ELSE [ok |-> TRUE, err |-> "", pt |-> Plain(key, nonce, rest[1])]

\* MasterKey::decrypt.
decrypt(key, ciphertext_with_nonce, associated_data) ==
    IF Len(ciphertext_with_nonce) < NONCE_LEN
    THEN [ok |-> FALSE, err |-> "Crypto(Ciphertext too short)", pt |-> <<>>]
    ELSE LET nonce == ciphertext_with_nonce[1]
             rest == SubSeq(ciphertext_with_nonce, NONCE_LEN + 1, Len(ciphertext_with_nonce))
         IN IF Len(rest) < 2
            THEN [ok |-> FALSE, err |-> "Crypto(Decryption failed)", pt |-> <<>>]
            ELSE IF rest[2] = Mac(key, nonce, associated_data, rest[1])
                 THEN [ok |-> TRUE, err |-> "", pt |-> Plain(key, nonce, rest[1])]
                 ELSE [ok |-> FALSE, err |-> "Crypto(Decryption failed)", pt |-> <<>>]

(***************************************************************************)
(* bincode encoding of the header and the payload.                         *)
(***************************************************************************)
serialize_header(header) == <<header.version, header.salt>>

deserialize_header(bytes) ==
    IF Len(bytes) < 2
    THEN [ok |-> FALSE, version |-> 0, salt |-> 0]
    ELSE [ok |-> TRUE, version |-> bytes[1], salt |-> bytes[2]]

serialize_credential(c) ==
    <<c.id, c.label, c.tags, c.created_at, c.updated_at, c.policy_id,
      <<c.secret.type_, c.secret.data>>, c.usage_counter>>

deserialize_credential(b) ==
    [id |-> b[1], label |-> b[2], tags |-> b[3], created_at |-> b[4], updated_at |-> b[5],
     policy_id |-> b[6], secret |-> [type_ |-> b[7][1], data |-> b[7][2]],
     usage_counter |-> b[8]]

\* An internally tagged enum (#[serde(tag = "type")]) is written as a struct
\* whose first field is the tag.
serialize_hook(h) ==
    IF h.type = "onlyFor" THEN <<h.type, h.duration_secs>> ELSE <<h.type, h.period>>

serialize_policy(p) ==
    <<p.id, [i \in 1..Len(p.hooks) |-> serialize_hook(p.hooks[i])], p.timezone,
      p.clock_skew_secs, p.max_attempts, p.single_use, p.version>>

\* Reading an internally tagged enum calls Deserializer::deserialize_any,
\* which bincode does not implement: every Hook element is an error, so a
\* policy decodes only if its hook list is empty.
deserialize_policy(b) ==
    IF Len(b[2]) > 0
    THEN [ok |-> FALSE, policy |-> NewPolicy(b[1], <<>>, FALSE, NoneInt)]
    ELSE [ok |-> TRUE,
          policy |-> [id |-> b[1], hooks |-> <<>>, timezone |-> b[3],
                      clock_skew_secs |-> b[4], max_attempts |-> b[5],
                      single_use |-> b[6], version |-> b[7]]]

\* bincode::serialize(&StorePayload): each map as its entries, in the
\* iteration order of the HashMap (co, po).
serialize_payload(credentials, policies, co, po) ==
    [credentials |-> [i \in 1..Len(co) |-> <<co[i], serialize_credential(credentials[co[i]])>>],
     policies |-> [i \in 1..Len(po) |-> <<po[i], serialize_policy(policies[po[i]])>>]]

RECURSIVE CollectCredentials(_, _)
CollectCredentials(entries, m) ==
    IF entries = <<>> THEN m
    ELSE CollectCredentials(Tail(entries),
                            Insert(m, Head(entries)[1], deserialize_credential(Head(entries)[2])))

RECURSIVE CollectPolicies(_, _)
CollectPolicies(entries, m) ==
    IF entries = <<>> THEN m
    ELSE CollectPolicies(Tail(entries),
                         Insert(m, Head(entries)[1], deserialize_policy(Head(entries)[2]).policy))

\* bincode::deserialize::<StorePayload>.
deserialize_payload(bytes) ==
    IF \E i \in 1..Len(bytes.policies) : ~deserialize_policy(bytes.policies[i][2]).ok
    THEN [ok |-> FALSE, credentials |-> EmptyMap, policies |-> EmptyMap]
    ELSE [ok |-> TRUE,
          credentials |-> CollectCredentials(bytes.credentials, EmptyMap),
          policies |-> CollectPolicies(bytes.policies, EmptyMap)]

(***************************************************************************)
(* store.rs: SecretStore                                                   *)
(***************************************************************************)
\* The u32 header-length prefix, counted in cells (its 4 bytes are one cell).
LEN_PREFIX == 1

NoKey == [p |-> "", s |-> 0]

\* No SecretStore value is held by the process.
Closed ==
    [open |-> FALSE, master_key |-> NoKey, salt |-> 0,
     credentials |-> EmptyMap, policies |-> EmptyMap]

NoFile == [exists |-> FALSE, bytes |-> <<>>]

NoSave == [valid |-> FALSE, key |-> NoKey, credentials |-> EmptyMap,
           policies |-> EmptyMap, bytes |-> <<>>]

\* How one call of save() ends: it returns Ok, it returns an I/O error from
\* NamedTempFile::new_in, write_all or persist, or the process is killed
\* after k of the three write_all calls (kill4: after persist).
SaveOutcomes ==
    {"ok", "fail_create", "fail_write", "fail_persist",
     "kill0", "kill1", "kill2", "kill3", "kill4"}

SaveFailures == {"fail_create", "fail_write", "fail_persist"}

\* What the caller of save() can tell about its end.
SaveClass(o) ==
    IF o = "ok" THEN "ok" ELSE IF o \in SaveFailures THEN "failed" ELSE "killed"

KillPoint(o) ==
    CASE o = "kill0" -> 0 [] o = "kill1" -> 1 [] o = "kill2" -> 2
      [] o = "kill3" -> 3 [] OTHER -> 4

RECURSIVE Concat(_, _)
\* The bytes of the first k chunks.
Concat(chunks, k) == IF k = 0 THEN <<>> ELSE Concat(chunks, k - 1) \o chunks[k]

\* The three chunks save() writes: header_len, header_bytes, encrypted_payload.
Chunks(st, nonce, co, po) ==
    LET header_bytes == serialize_header([version |-> STORE_VERSION, salt |-> st.salt])
        header_len == Len(header_bytes)
        payload_bytes == serialize_payload(st.credentials, st.policies, co, po)
        encrypted_payload == encrypt(st.master_key, payload_bytes, header_bytes, nonce)
    IN <<(<<header_len>>), header_bytes, encrypted_payload>>

OpenErr(e) == [result |-> e, store |-> Closed]

\* Faulty variant of open: a file shorter than its header length announces
\* is reported as a header that does not parse.
open_truncated_as_corrupt(dsk, passphrase) ==
    IF ~dsk.exists THEN OpenErr("Err(Io(NotFound))")
    ELSE LET contents == dsk.bytes IN
    IF Len(contents) < LEN_PREFIX THEN OpenErr("Err(Io(File too short))")
    ELSE LET header_len == contents[1] IN
    IF Len(contents) < LEN_PREFIX + header_len THEN OpenErr("Err(Serialization)")
    ELSE LET header_bytes == SubSeq(contents, LEN_PREFIX + 1, LEN_PREFIX + header_len)
             header == deserialize_header(header_bytes) IN
    IF ~header.ok THEN OpenErr("Err(Serialization)")
    ELSE LET derived == derive_from_passphrase(passphrase, header.salt) IN
    IF ~derived.ok THEN OpenErr("Err(" \o derived.err \o ")")
    ELSE LET encrypted_payload == SubSeq(contents, LEN_PREFIX + header_len + 1, Len(contents))
             decrypted_bytes == decrypt(derived.key, encrypted_payload, header_bytes) IN
    IF ~decrypted_bytes.ok THEN OpenErr("Err(" \o decrypted_bytes.err \o ")")
    ELSE LET payload == deserialize_payload(decrypted_bytes.pt) IN
    IF ~payload.ok THEN OpenErr("Err(Serialization)")
    ELSE [result |-> "Ok",
          store |-> [open |-> TRUE, master_key |-> derived.key, salt |-> header.salt,
                     credentials |-> payload.credentials, policies |-> payload.policies]]


\* SecretStore::open.
open(dsk, passphrase) ==
    IF ~dsk.exists THEN OpenErr("Err(Io(NotFound))")
    ELSE LET contents == dsk.bytes IN
    IF Len(contents) < LEN_PREFIX THEN OpenErr("Err(Io(File too short))")
    ELSE LET header_len == contents[1] IN
    IF Len(contents) < LEN_PREFIX + header_len THEN OpenErr("Err(Io(File truncated))")
    ELSE LET header_bytes == SubSeq(contents, LEN_PREFIX + 1, LEN_PREFIX + header_len)
             header == deserialize_header(header_bytes) IN
    IF ~header.ok THEN OpenErr("Err(Serialization)")
    ELSE LET derived == derive_from_passphrase(passphrase, header.salt) IN
    IF ~derived.ok THEN OpenErr("Err(" \o derived.err \o ")")
    ELSE LET encrypted_payload == SubSeq(contents, LEN_PREFIX + header_len + 1, Len(contents))
             decrypted_bytes == decrypt(derived.key, encrypted_payload, header_bytes) IN
    IF ~decrypted_bytes.ok THEN OpenErr("Err(" \o decrypted_bytes.err \o ")")
    ELSE LET payload == deserialize_payload(decrypted_bytes.pt) IN
    IF ~payload.ok THEN OpenErr("Err(Serialization)")
    ELSE [result |-> "Ok",
          store |-> [open |-> TRUE, master_key |-> derived.key, salt |-> header.salt,
                     credentials |-> payload.credentials, policies |-> payload.policies]]

\* Faulty variant of save: the maps of the file as it is now are merged
\* into the maps that are written.
save_merging(st, dsk, outcome, nonce, co, po) ==
    LET there == open(dsk, st.master_key.p).store
        merged == [st EXCEPT
                     !.credentials = [id \in DOMAIN there.credentials \cup DOMAIN @ |->
                                        IF id \in DOMAIN @ THEN @[id]
                                        ELSE there.credentials[id]]]
        order == CHOOSE o \in Orders(DOMAIN merged.credentials) : TRUE
        chunks == Chunks(merged, nonce, order, po)
        full == [exists |-> TRUE, bytes |-> Concat(chunks, 3)]
    IN IF outcome = "ok"
       THEN [result |-> "Ok", alive |-> TRUE, disk |-> full]
       ELSE IF outcome \in SaveFailures
       THEN [result |-> "Err(Io)", alive |-> TRUE, disk |-> dsk]
       ELSE IF KillPoint(outcome) = 4
       THEN [result |-> "killed after persist", alive |-> FALSE, disk |-> full]
       ELSE [result |-> "killed before persist", alive |-> FALSE, disk |-> dsk]

\* Faulty variant of save: the chunks are written to the store path itself.
save_in_place(st, dsk, outcome, nonce, co, po) ==
    LET chunks == Chunks(st, nonce, co, po)
        full == [exists |-> TRUE, bytes |-> Concat(chunks, 3)]
    IN IF outcome = "ok"
       THEN [result |-> "Ok", alive |-> TRUE, disk |-> full]
       ELSE IF outcome = "fail_create"
       THEN [result |-> "Err(Io)", alive |-> TRUE, disk |-> dsk]
       ELSE IF outcome = "fail_write"
       THEN [result |-> "Err(Io)", alive |-> TRUE,
             disk |-> [exists |-> TRUE, bytes |-> Concat(chunks, 1)]]
       ELSE IF outcome = "fail_persist"
       THEN [result |-> "Err(Io)", alive |-> TRUE, disk |-> full]
       ELSE IF KillPoint(outcome) = 4
       THEN [result |-> "killed after persist", alive |-> FALSE, disk |-> full]
       ELSE [result |-> "killed before persist", alive |-> FALSE,
             disk |-> [exists |-> TRUE, bytes |-> Concat(chunks, KillPoint(outcome))]]

\* SecretStore::save: the chunks go to a new temporary file, which persist
\* renames over the store path.  A temporary file that was not renamed is
\* deleted when save() returns and stays behind, holding Concat(chunks, k),
\* when the process is killed; the program never reads it again, so it is
\* not part of the state.  The result names the value returned, whether the
\* process is still alive, and the file at the store path.
save(st, dsk, outcome, nonce, co, po) ==
    LET chunks == Chunks(st, nonce, co, po)
        full == [exists |-> TRUE, bytes |-> Concat(chunks, 3)]
    IN IF outcome = "ok"
       THEN [result |-> "Ok", alive |-> TRUE, disk |-> full]
       ELSE IF outcome \in SaveFailures
       THEN [result |-> "Err(Io)", alive |-> TRUE, disk |-> dsk]
       ELSE IF KillPoint(outcome) = 4
       THEN [result |-> "killed after persist", alive |-> FALSE, disk |-> full]
       ELSE [result |-> "killed before persist", alive |-> FALSE, disk |-> dsk]

\* The values save() may draw from S (a nonce from OsRng, an iteration order
\* of a HashMap): any of S when the bytes reach the store path, and one
\* representative when they are discarded with the temporary file.
Drawn(outcome, S) ==
    IF outcome \in {"ok", "kill4"} THEN S ELSE {CHOOSE x \in S : TRUE}

\* An operation that was not handed a record.
NoArg == [id |-> NoneStr]

\* What the last operation was called with and what it returned: its name,
\* the id (or passphrase) and the record it was handed, the number of
\* credentials and of policies the store held when it was called, the value
\* returned, what it printed and how its call of save() ended.
Result(op, id, result, sv) ==
    [op |-> op, id |-> id, arg |-> NoArg,
     entries |-> <<Cardinality(DOMAIN store.credentials), Cardinality(DOMAIN store.policies)>>,
     result |-> result, out |-> NoneStr, save |-> sv]

\* Faulty variant of Persist: the result of save() is dropped and Ok is returned.
Persist_ignoring_error(st1, op, id, arg, outcome, keep) ==
    /\ (outcome # "ok") => nfail < MaxFail
    /\ \E nonce \in Drawn(outcome, FreshNonces),
          co \in Drawn(outcome, Orders(DOMAIN st1.credentials)),
          po \in Orders(DOMAIN st1.policies) :
         LET r == save(st1, disk, outcome, nonce, co, po) IN
           /\ store' = IF r.alive /\ (r.result = "Ok" \/ keep) THEN st1 ELSE Closed
           /\ disk' = r.disk
           /\ saved' = IF r.disk # disk
                       THEN [valid |-> TRUE, key |-> st1.master_key,
                             credentials |-> st1.credentials, policies |-> st1.policies,
                             bytes |-> r.disk.bytes]
                       ELSE saved
           /\ last' = [Result(op, id, IF r.alive THEN "Ok" ELSE r.result, SaveClass(outcome))
                          EXCEPT !.arg = arg]
    /\ nfail' = IF outcome = "ok" THEN nfail ELSE nfail + 1
    /\ UNCHANGED <<now, evalIn, evalOut>>

\* The call self.save() that ends a mutating operation on the store st1, and
\* the return of the operation.  arg: the record the operation was handed.
\* keep: whether the caller still holds the store when save() has returned
\* an error (init does not return it).
Persist(st1, op, id, arg, outcome, keep) ==
    /\ (outcome # "ok") => nfail < MaxFail
    /\ \E nonce \in Drawn(outcome, FreshNonces),
          co \in Drawn(outcome, Orders(DOMAIN st1.credentials)),
          po \in Orders(DOMAIN st1.policies) :
         LET r == save(st1, disk, outcome, nonce, co, po) IN
           /\ store' = IF r.alive /\ (r.result = "Ok" \/ keep) THEN st1 ELSE Closed
           /\ disk' = r.disk
           /\ saved' = IF r.disk # disk
                       THEN [valid |-> TRUE, key |-> st1.master_key,
                             credentials |-> st1.credentials, policies |-> st1.policies,
                             bytes |-> r.disk.bytes]
                       ELSE saved
           /\ last' = [Result(op, id, r.result, SaveClass(outcome)) EXCEPT !.arg = arg]
    /\ nfail' = IF outcome = "ok" THEN nfail ELSE nfail + 1
    /\ UNCHANGED <<now, evalIn, evalOut>>

\* An operation that returns without touching the maps or the file.
Return(op, id, result) ==
    /\ last' = Result(op, id, result, "none")
    /\ UNCHANGED <<store, disk, saved, nfail, now, evalIn, evalOut>>

\* SecretStore::init with a freshly generated salt.
init(passphrase, salt, outcome) ==
    /\ ~store.open
    /\ Persist([open |-> TRUE, master_key |-> derive_from_passphrase(passphrase, salt).key,
                salt |-> salt, credentials |-> EmptyMap, policies |-> EmptyMap],
               "init", passphrase, NoArg, outcome, FALSE)

\* SecretStore::open called by a process that holds no store.
Open(passphrase) ==
    /\ ~store.open
    /\ store' = open(disk, passphrase).store
    /\ last' = Result("open", passphrase, open(disk, passphrase).result, "none")
    /\ UNCHANGED <<disk, saved, nfail, now, evalIn, evalOut>>

\* The SecretStore value is dropped (the command or the process ends).
Close ==
    /\ store.open
    /\ store' = Closed
    /\ last' = Result("close", "", "Ok", "none")
    /\ UNCHANGED <<disk, saved, nfail, now, evalIn, evalOut>>

add_policy(policy, outcome) ==
    /\ store.open
    /\ Persist([store EXCEPT !.policies = Insert(@, policy.id, policy)],
               "add_policy", policy.id, policy, outcome, TRUE)

get_policy(id) ==
    /\ store.open
    /\ Return("get_policy", id, IF id \in DOMAIN store.policies THEN "Some" ELSE "None")

remove_policy(id, outcome) ==
    /\ store.open
    /\ IF id \in DOMAIN store.policies
       THEN Persist([store EXCEPT !.policies = Remove(@, id)],
                    "remove_policy", id, NoArg, outcome, TRUE)
       ELSE outcome = "ok" /\ Return("remove_policy", id, "Ok")

list_policies ==
    /\ store.open
    /\ Return("list_policies", "", "Ok")

add_credential(cred, outcome) ==
    /\ store.open
    /\ Persist([store EXCEPT !.credentials = Insert(@, cred.id, cred)],
               "add_credential", cred.id, cred, outcome, TRUE)

get_credential(id) ==
    /\ store.open
    /\ Return("get_credential", id, IF id \in DOMAIN store.credentials THEN "Some" ELSE "None")

list_credentials ==
    /\ store.open
    /\ Return("list_credentials", "", "Ok")

remove_credential(id, outcome) ==
    /\ store.open
    /\ IF id \in DOMAIN store.credentials
       THEN Persist([store EXCEPT !.credentials = Remove(@, id)],
                    "remove_credential", id, NoArg, outcome, TRUE)
       ELSE outcome = "ok" /\ Return("remove_credential", id, "Ok")

\* Faulty variant of increment_usage: updated_at is not refreshed.
increment_usage_stale(id, outcome) ==
    /\ store.open
    /\ IF id \in DOMAIN store.credentials
       THEN /\ store.credentials[id].usage_counter < MaxUsage
            /\ Persist([store EXCEPT !.credentials[id].usage_counter = @ + 1],
                       "increment_usage", id, NoArg, outcome, TRUE)
       ELSE outcome = "ok"
            /\ Return("increment_usage", id, "Err(Store(not found))")

\* SecretStore::increment_usage; the counter is capped at MaxUsage.
increment_usage(id, outcome) ==
    /\ store.open
    /\ IF id \in DOMAIN store.credentials
       THEN /\ store.credentials[id].usage_counter < MaxUsage
            /\ Persist([store EXCEPT !.credentials[id].usage_counter = @ + 1,
                                     !.credentials[id].updated_at = now],
                       "increment_usage", id, NoArg, outcome, TRUE)
       ELSE outcome = "ok"
            /\ Return("increment_usage", id, "Err(Store(not found))")

\* commands::init: refuses an existing path, otherwise SecretStore::init; the
\* store is dropped when the command returns.
cli_init(passphrase, salt, outcome) ==
    /\ ~store.open
    /\ IF disk.exists
       THEN Return("cli_init", passphrase, "Err(Store already exists)")
       ELSE /\ (outcome # "ok") => nfail < MaxFail
            /\ \E nonce \in Drawn(outcome, FreshNonces) :
               LET st == [open |-> TRUE,
                          master_key |-> derive_from_passphrase(passphrase, salt).key,
                          salt |-> salt, credentials |-> EmptyMap, policies |-> EmptyMap]
                   r == save(st, disk, outcome, nonce, <<>>, <<>>)
               IN /\ store' = Closed
                  /\ disk' = r.disk
                         /\ saved' = IF r.disk # disk
                              THEN [valid |-> TRUE, key |-> st.master_key,
                                    credentials |-> EmptyMap, policies |-> EmptyMap,
                                    bytes |-> r.disk.bytes]
                              ELSE saved
                  /\ last' = Result("cli_init", passphrase, r.result, SaveClass(outcome))
            /\ nfail' = IF outcome = "ok" THEN nfail ELSE nfail + 1
            /\ UNCHANGED <<now, evalIn, evalOut>>

(***************************************************************************)
(* Environment: the clock, and corruption of the file at rest.             *)
(***************************************************************************)
\* Utc::now() advances.
Tick ==
    /\ now < MaxTime
    /\ now' = now + 1
    /\ last' = Result("tick", "", "Ok", "none")
    /\ UNCHANGED <<store, disk, saved, nfail, evalIn, evalOut>>

TamperCells == {"version", "salt", "nonce", "ciphertext", "tag"}

CellIndex(c) ==
    CASE c = "version" -> 2 [] c = "salt" -> 3 [] c = "nonce" -> 4
      [] c = "ciphertext" -> 5 [] OTHER -> 6

\* One bit of one cell of the file as save() wrote it is flipped while no
\* process has the store open.  A bit flip is a fault like a failed save.
Tamper(c, b) ==
    /\ ~store.open
    /\ nfail < MaxFail
    /\ saved.valid /\ disk.exists /\ disk.bytes = saved.bytes
    /\ disk' = [disk EXCEPT !.bytes[CellIndex(c)] =
                   IF c \in {"ciphertext", "tag"}
                   THEN [@ EXCEPT !.x = FlipBit(@, b)]
                   ELSE FlipBit(@, b)]
    /\ last' = Result("tamper", c, "Ok", "none")
    /\ nfail' = nfail + 1
    /\ UNCHANGED <<store, saved, now, evalIn, evalOut>>

(***************************************************************************)
(* The store specification.                                                *)
(***************************************************************************)
NoEval == [verdict |-> "none", violation |-> "", matched_hooks |-> <<>>, details |-> EmptyMap]

NoInput == [policy |-> NewPolicy("p1", <<>>, FALSE, NoneInt),
            ctx |-> [now |-> 0, created_at |-> NoneInt, last_used_at |-> NoneInt,
                     usage_count |-> 0]]

\* The policies handed to add_policy.
PolicyInputs ==
    {NewPolicy("p1", <<>>, FALSE, NoneInt),
     NewPolicy("p1", <<[type |-> "onlyFor", duration_secs |-> 1]>>, FALSE, NoneInt)}

\* The credentials handed to add_credential: id, secret bytes, policy_id.
CredentialInputs ==
    {<<"c1", "s1", NoneStr>>, <<"c1", "s2", "p1">>, <<"c2", "s1", NoneStr>>}

Init ==
    /\ store = Closed
    /\ disk = NoFile
    /\ now = 0
    /\ last = Result("none", "", "Ok", "none")
    /\ saved = NoSave
    /\ nfail = 0
    /\ evalIn = NoInput
    /\ evalOut = NoEval

Next ==
    \/ \E p \in InitPassphrases, s \in FreshSalts, o \in SaveOutcomes :
         init(p, s, o)
    \/ \E p \in InitPassphrases, s \in FreshSalts, o \in SaveOutcomes :
         cli_init(p, s, o)
    \/ \E p \in Passphrases : Open(p)
    \/ Close
    \/ \E pol \in PolicyInputs, o \in SaveOutcomes : add_policy(pol, o)
    \/ \E id \in PolicyIds : get_policy(id)
    \/ \E id \in PolicyIds, o \in SaveOutcomes : remove_policy(id, o)
    \/ list_policies
    \/ \E c \in CredentialInputs, o \in SaveOutcomes :
         add_credential(NewCredential(c[1], c[2], c[3], now), o)
    \/ \E id \in CredIds : get_credential(id)
    \/ list_credentials
    \/ \E id \in CredIds, o \in SaveOutcomes : remove_credential(id, o)
    \/ \E id \in CredIds, o \in SaveOutcomes : increment_usage(id, o)
    \/ Tick
    \/ \E c \in TamperCells, b \in TamperBits : Tamper(c, b)

Spec == Init /\ [][Next]_vars

(***************************************************************************)
(* eval.rs: Policy::evaluate.  Times are whole seconds.  The 64-bit widths *)
(* and the ranges of chrono are scaled down, keeping their order:          *)
(* timestamps in use < DATETIME_MAX < DURATION_MAX_SECS < I64_MAX.         *)
(***************************************************************************)
\* i64::MAX; a u64 ranges over 0 .. 2 * I64_MAX + 1.
I64_MAX == 15
\* chrono::Duration::seconds panics outside -i64::MAX/1000 ..= i64::MAX/1000.
DURATION_MAX_SECS == 9
\* DateTime<Utc> + Duration panics when the sum leaves the range of DateTime.
DATETIME_MAX == 6

\* `duration_secs as i64`: two's complement reinterpretation.
AsI64(d) == IF d > I64_MAX THEN d - 2 * (I64_MAX + 1) ELSE d

\* Whether created + Duration::seconds(duration_secs as i64) panics.
OnlyForPanics(created, duration_secs) ==
    \/ AsI64(duration_secs) > DURATION_MAX_SECS
    \/ AsI64(duration_secs) < -DURATION_MAX_SECS
    \/ created + AsI64(duration_secs) > DATETIME_MAX
    \/ created + AsI64(duration_secs) < -DATETIME_MAX

\* Faulty variant of Passed: the instants and the deadline are compared
\* without their boundary (<= for OnlyBefore, >= for OnlyAfter, < for
\* OnlyWithin and OnlyFor).
Passed_inclusive(hook, ctx) ==
    CASE hook.type = "onlyBefore" ->
           IF hook.period.type = "instant" THEN ctx.now <= hook.period.value ELSE FALSE
      [] hook.type = "onlyAfter" ->
           IF hook.period.type = "instant" THEN ctx.now >= hook.period.value ELSE FALSE
      [] hook.type = "onlyWithin" ->
           IF hook.period.type = "range"
           THEN ctx.now > hook.period.start /\ ctx.now < hook.period.end
           ELSE FALSE
      [] OTHER ->
           IF ctx.created_at # NoneInt
           THEN ctx.now < ctx.created_at + AsI64(hook.duration_secs)
           ELSE FALSE

\* Faulty variant of Passed: a Range given to OnlyBefore or OnlyAfter is
\* read by its end or start, and an Instant given to OnlyWithin as a window
\* of one instant.
Passed_any_period(hook, ctx) ==
    CASE hook.type = "onlyBefore" ->
           IF hook.period.type = "instant" THEN ctx.now < hook.period.value
           ELSE IF hook.period.type = "range" THEN ctx.now < hook.period.end
           ELSE FALSE
      [] hook.type = "onlyAfter" ->
           IF hook.period.type = "instant" THEN ctx.now > hook.period.value
           ELSE IF hook.period.type = "range" THEN ctx.now > hook.period.start
           ELSE FALSE
      [] hook.type = "onlyWithin" ->
           IF hook.period.type = "range"
           THEN ctx.now >= hook.period.start /\ ctx.now <= hook.period.end
           ELSE IF hook.period.type = "instant" THEN ctx.now = hook.period.value
           ELSE FALSE
      [] OTHER ->
           IF ctx.created_at # NoneInt
           THEN ctx.now <= ctx.created_at + AsI64(hook.duration_secs)
           ELSE FALSE

\* The match on hook that computes `passed`.
Passed(hook, ctx) ==
    CASE hook.type = "onlyBefore" ->
           IF hook.period.type = "instant" THEN ctx.now < hook.period.value ELSE FALSE
      [] hook.type = "onlyAfter" ->
           IF hook.period.type = "instant" THEN ctx.now > hook.period.value ELSE FALSE
      [] hook.type = "onlyWithin" ->
           IF hook.period.type = "range"
           THEN ctx.now >= hook.period.start /\ ctx.now <= hook.period.end
           ELSE FALSE
      [] OTHER ->
           IF ctx.created_at # NoneInt
           THEN ctx.now <= ctx.created_at + AsI64(hook.duration_secs)
           ELSE FALSE

\* Whether computing `passed` for this hook panics.
Panics(hook, ctx) ==
    /\ hook.type = "onlyFor"
    /\ ctx.created_at # NoneInt
    /\ OnlyForPanics(ctx.created_at, hook.duration_secs)

FailReason(hook) ==
    CASE hook.type = "onlyBefore" -> "Expired (After allowed time)"
      [] hook.type = "onlyAfter" -> "NotYetValid (Before allowed time)"
      [] hook.type = "onlyWithin" -> "Outside allowed window"
      [] OTHER -> "Expired (Duration elapsed)"

\* Faulty variant of FailVerdict: the verdicts of OnlyBefore and OnlyAfter
\* are exchanged.
FailVerdict_swapped(hook) ==
    CASE hook.type = "onlyAfter" -> "Expired"
      [] hook.type = "onlyBefore" -> "NotYetValid"
      [] hook.type = "onlyFor" -> "Expired"
      [] OTHER -> "PolicyViolation"

FailVerdict(hook) ==
    CASE hook.type \in {"onlyBefore", "onlyFor"} -> "Expired"
      [] hook.type = "onlyAfter" -> "NotYetValid"
      [] OTHER -> "PolicyViolation"

\* A PolicyEvaluation; violation is the String carried by
\* Verdict::PolicyViolation; matched_hooks holds 0-based indices.
Evaluation(verdict, violation, matched_hooks, details) ==
    [verdict |-> verdict, violation |-> violation, matched_hooks |-> matched_hooks,
     details |-> details]

RECURSIVE EvaluateHooks_one_based(_, _, _, _)
\* Faulty variant of EvaluateHooks: failed_hook_index counts from 1.
EvaluateHooks_one_based(hooks, i, matched_hooks, ctx) ==
    IF i > Len(hooks)
    THEN Evaluation("Accept", "", matched_hooks, EmptyMap)
    ELSE IF Panics(hooks[i], ctx)
    THEN Evaluation("panic", "", matched_hooks, EmptyMap)
    ELSE IF ~Passed(hooks[i], ctx)
    THEN Evaluation(FailVerdict(hooks[i]),
                    IF FailVerdict(hooks[i]) = "PolicyViolation"
                    THEN FailReason(hooks[i]) ELSE "",
                    matched_hooks,
                    [k \in {"failed_hook_index", "reason"} |->
                        IF k = "reason" THEN FailReason(hooks[i]) ELSE ToString(i)])
    ELSE EvaluateHooks_one_based(hooks, i + 1, Append(matched_hooks, i - 1), ctx)

RECURSIVE EvaluateHooks(_, _, _, _)
\* The loop over self.hooks.iter().enumerate(), from the hook at position i
\* (1-based here, i - 1 in the program).
EvaluateHooks(hooks, i, matched_hooks, ctx) ==
    IF i > Len(hooks)
    THEN Evaluation("Accept", "", matched_hooks, EmptyMap)
    ELSE IF Panics(hooks[i], ctx)
    THEN Evaluation("panic", "", matched_hooks, EmptyMap)
    ELSE IF ~Passed(hooks[i], ctx)
    THEN Evaluation(FailVerdict(hooks[i]),
                    IF FailVerdict(hooks[i]) = "PolicyViolation"
                    THEN FailReason(hooks[i]) ELSE "",
                    matched_hooks,
                    [k \in {"failed_hook_index", "reason"} |->
                        IF k = "reason" THEN FailReason(hooks[i]) ELSE ToString(i - 1)])
    ELSE EvaluateHooks(hooks, i + 1, Append(matched_hooks, i - 1), ctx)

\* Faulty variant of evaluate: max_attempts is checked before single_use.
evaluate_max_first(policy, ctx) ==
    IF policy.max_attempts # NoneInt /\ ctx.usage_count >= policy.max_attempts
    THEN Evaluation("Reject", "", <<>>,
                    [k \in {"reason"} |-> "Max attempts exceeded"])
    ELSE IF policy.single_use /\ ctx.usage_count > 0
    THEN Evaluation("Reject", "", <<>>,
                    [k \in {"reason"} |-> "Single use policy violation"])
    ELSE EvaluateHooks(policy.hooks, 1, <<>>, ctx)

\* Faulty variant of evaluate: the limit is reached only above max_attempts.
evaluate_max_strict(policy, ctx) ==
    IF policy.single_use /\ ctx.usage_count > 0
    THEN Evaluation("Reject", "", <<>>,
                    [k \in {"reason"} |-> "Single use policy violation"])
    ELSE IF policy.max_attempts # NoneInt /\ ctx.usage_count > policy.max_attempts
    THEN Evaluation("Reject", "", <<>>,
                    [k \in {"reason"} |-> "Max attempts exceeded"])
    ELSE EvaluateHooks(policy.hooks, 1, <<>>, ctx)

\* Faulty variant of evaluate: clock_skew_secs is granted as a tolerance on
\* the current time.
evaluate_with_skew(policy, ctx) ==
    IF policy.single_use /\ ctx.usage_count > 0
    THEN Evaluation("Reject", "", <<>>,
                    [k \in {"reason"} |-> "Single use policy violation"])
    ELSE IF policy.max_attempts # NoneInt /\ ctx.usage_count >= policy.max_attempts
    THEN Evaluation("Reject", "", <<>>,
                    [k \in {"reason"} |-> "Max attempts exceeded"])
    ELSE EvaluateHooks(policy.hooks, 1, <<>>,
                       [ctx EXCEPT !.now = @ - policy.clock_skew_secs])

\* Policy::evaluate.
evaluate(policy, ctx) ==
    IF policy.single_use /\ ctx.usage_count > 0
    THEN Evaluation("Reject", "", <<>>,
                    [k \in {"reason"} |-> "Single use policy violation"])
    ELSE IF policy.max_attempts # NoneInt /\ ctx.usage_count >= policy.max_attempts
    THEN Evaluation("Reject", "", <<>>,
                    [k \in {"reason"} |-> "Max attempts exceeded"])
    ELSE EvaluateHooks(policy.hooks, 1, <<>>, ctx)

(***************************************************************************)
(* commands.rs: the commands of the CLI.  A command prompts for the        *)
(* passphrase, opens the store from the file, calls the SDK and returns;   *)
(* the SecretStore value is dropped when it returns, so between two        *)
(* commands the state of the program is the file.                          *)
(***************************************************************************)
MaxVersion == 2

\* The record of what save() wrote for the store st.
SavedAs(st, bytes) ==
    [valid |-> TRUE, key |-> st.master_key, credentials |-> st.credentials,
     policies |-> st.policies, bytes |-> bytes]

\* A command returns without calling save().  (evalOut is left to the
\* command: it is where the releases of secrets are counted.)
CliReturn(op, id, result, out) ==
    /\ last' = [Result(op, id, result, "none") EXCEPT !.out = out]
    /\ UNCHANGED <<store, disk, saved, nfail, now, evalIn>>

\* The ways a call of save() made by a command ends: one of each class.
CliOutcomes == {"ok", "fail_write", "kill2", "kill4"}

\* A call of save() of a command that ends in outcome, on the store st1, with
\* the file dsk and its record sv as the earlier calls of the command left
\* them, and the return of the command.
CliSaveAs(st1, dsk, sv, op, id, arg, out, outcome) ==
    /\ (outcome # "ok") => nfail < MaxFail
    /\ \E nonce \in Drawn(outcome, FreshNonces),
          co \in Drawn(outcome, Orders(DOMAIN st1.credentials)),
          po \in Drawn(outcome, Orders(DOMAIN st1.policies)) :
         \E r \in {save(st1, dsk, outcome, nonce, co, po)} :
           /\ store' = Closed
           /\ disk' = r.disk
           /\ saved' = IF r.disk # dsk THEN SavedAs(st1, r.disk.bytes) ELSE sv
           /\ last' = [Result(op, id, r.result, SaveClass(outcome))
                          EXCEPT !.arg = arg, !.out = out]
    /\ nfail' = IF outcome = "ok" THEN nfail ELSE nfail + 1
    /\ UNCHANGED <<now, evalIn>>

\* The last call of save() of a command and the return of the command.
CliSave(st1, dsk, sv, op, id, arg, out) ==
    \E outcome \in CliOutcomes : CliSaveAs(st1, dsk, sv, op, id, arg, out, outcome)

\* The policy files handed to add --policy and to policy add.  A file gives
\* every field of the Policy, the version included.
CliPolicies ==
    {NewPolicy("p1", <<>>, FALSE, NoneInt),
     NewPolicy("p1", <<>>, TRUE, NoneInt),
     NewPolicy("p1", <<[type |-> "onlyFor", duration_secs |-> 1]>>, FALSE, NoneInt)}

\* commands::add: refuses an id that is present; with a policy file the
\* policy is stored first (a save of its own) and the credential refers to it.
cli_add(passphrase, id, data, policy) ==
    /\ ~store.open
    /\ \E r \in {open(disk, passphrase)} :
       LET st == r.store
           cred == NewCredential(id, data, policy.id, now)
           st1 == [st EXCEPT !.policies = Insert(@, policy.id, policy)]
           st2 == [st1 EXCEPT !.credentials = Insert(@, id, cred)]
       IN IF r.result # "Ok" THEN CliReturn("cli_add", id, r.result, NoneStr)
          ELSE IF id \in DOMAIN st.credentials
          THEN CliReturn("cli_add", id, "Err(Credential already exists)", NoneStr)
          ELSE IF policy.id = NoneStr
          THEN CliSave([st EXCEPT !.credentials = Insert(@, id, cred)], disk, saved,
                       "cli_add", id, cred, NoneStr)
          ELSE \/ \E outcome \in CliOutcomes \ {"ok"} :
                    CliSaveAs(st1, disk, saved, "cli_add", id, cred, NoneStr, outcome)
               \/ \E nonce \in FreshNonces, co \in Orders(DOMAIN st1.credentials),
                     po \in Orders(DOMAIN st1.policies) :
                    \E d1 \in {save(st1, disk, "ok", nonce, co, po).disk} :
                       CliSave(st2, d1, SavedAs(st1, d1.bytes),
                               "cli_add", id, cred, NoneStr)
    /\ UNCHANGED evalOut

\* The context commands::get evaluates the policy of a credential in.
GetContext(cred, t) ==
    [now |-> t, created_at |-> cred.created_at, last_used_at |-> cred.updated_at,
     usage_count |-> cred.usage_counter]

\* Faulty variant of PolicyVerdict: a policy_id that names no stored policy
\* denies access.
PolicyVerdict_missing_denies(st, cred, t) ==
    IF cred.policy_id = NoneStr THEN "Accept"
    ELSE IF cred.policy_id \notin DOMAIN st.policies THEN "PolicyViolation"
    ELSE evaluate(st.policies[cred.policy_id], GetContext(cred, t)).verdict

\* Faulty variant of PolicyVerdict: the policy is not consulted.
PolicyVerdict_not_consulted(st, cred, t) == "Accept"

\* commands::get, "Evaluate policy if present": the verdict of the policy
\* the credential refers to if the store holds it, and nothing to enforce
\* if the credential names no policy or a policy the store does not hold.
PolicyVerdict(st, cred, t) ==
    IF cred.policy_id # NoneStr /\ cred.policy_id \in DOMAIN st.policies
    THEN evaluate(st.policies[cred.policy_id], GetContext(cred, t)).verdict
    ELSE "Accept"

\* commands::get: a verdict other than Accept ends the command with Ok and
\* nothing released; otherwise the secret is printed and the usage is
\* incremented.  The usage counter is capped at MaxUsage.
get(passphrase, id) ==
    /\ ~store.open
    /\ \E r \in {open(disk, passphrase)} :
       LET st == r.store
       IN IF r.result # "Ok"
          THEN CliReturn("cli_get", id, r.result, NoneStr)
          ELSE IF id \notin DOMAIN st.credentials
          THEN CliReturn("cli_get", id, "Err(Credential not found)", NoneStr)
          ELSE LET cred == st.credentials[id]
                   verdict == PolicyVerdict(st, cred, now)
               IN IF verdict = "panic"
                  THEN CliReturn("cli_get", id, "panic", NoneStr)
                  ELSE IF verdict # "Accept"
                  THEN CliReturn("cli_get", id, "Ok", "ACCESS DENIED")
                  ELSE /\ cred.usage_counter < MaxUsage
                       /\ CliSave([st EXCEPT !.credentials[id].usage_counter = @ + 1,
                                             !.credentials[id].updated_at = now],
                                  disk, saved, "cli_get", id, NoArg, cred.secret.data)

\* commands::get in a specification that does not count the releases.
cli_get(passphrase, id) ==
    /\ get(passphrase, id)
    /\ UNCHANGED evalOut

\* commands::remove.
cli_remove(passphrase, id) ==
    /\ ~store.open
    /\ \E r \in {open(disk, passphrase)} :
       LET st == r.store
       IN IF r.result # "Ok"
          THEN CliReturn("cli_remove", id, r.result, NoneStr)
          ELSE IF id \notin DOMAIN st.credentials
          THEN CliReturn("cli_remove", id, "Ok", NoneStr)
          ELSE CliSave([st EXCEPT !.credentials = Remove(@, id)], disk, saved,
                       "cli_remove", id, NoArg, NoneStr)
    /\ UNCHANGED evalOut

\* commands::list.
cli_list(passphrase) ==
    /\ ~store.open
    /\ CliReturn("cli_list", "", open(disk, passphrase).result, NoneStr)
    /\ UNCHANGED evalOut

\* Faulty variant of rotate: a new record is built for the id.
rotate_as_new(cred, data, t) == NewCredential(cred.id, data, cred.policy_id, t)

\* commands::rotate, App::confirm_rotate: the clone of the stored credential
\* with the new secret bytes and updated_at = Utc::now().
rotate(cred, data, t) == [cred EXCEPT !.secret.data = data, !.updated_at = t]

\* commands::rotate: the rotated clone is stored with add_credential.
cli_rotate(passphrase, id, data) ==
    /\ ~store.open
    /\ \E r \in {open(disk, passphrase)} :
       LET st == r.store
       IN IF r.result # "Ok"
          THEN CliReturn("cli_rotate", id, r.result, NoneStr)
          ELSE IF id \notin DOMAIN st.credentials
          THEN CliReturn("cli_rotate", id, "Err(Credential not found)", NoneStr)
          ELSE LET cred == rotate(st.credentials[id], data, now)
               IN CliSave([st EXCEPT !.credentials = Insert(@, cred.id, cred)], disk, saved,
                          "cli_rotate", id, cred, NoneStr)
    /\ UNCHANGED evalOut

\* commands::policy_add: the policy of the file, under the id given with
\* --id if there is one, is stored with add_policy.
cli_policy_add(passphrase, new_id, file) ==
    /\ ~store.open
    /\ \E r \in {open(disk, passphrase)} :
       LET st == r.store
           policy == IF new_id # NoneStr THEN [file EXCEPT !.id = new_id] ELSE file
       IN IF r.result # "Ok"
          THEN CliReturn("cli_policy_add", policy.id, r.result, NoneStr)
          ELSE CliSave([st EXCEPT !.policies = Insert(@, policy.id, policy)], disk, saved,
                       "cli_policy_add", policy.id, policy, NoneStr)
    /\ UNCHANGED evalOut

\* commands::policy_get.
cli_policy_get(passphrase, id) ==
    /\ ~store.open
    /\ \E r \in {open(disk, passphrase)} :
          CliReturn("cli_policy_get", id,
                    IF r.result # "Ok" THEN r.result
                    ELSE IF id \in DOMAIN r.store.policies THEN "Ok"
                    ELSE "Err(Policy not found)",
                    NoneStr)
    /\ UNCHANGED evalOut

\* commands::policy_remove.
cli_policy_remove(passphrase, id) ==
    /\ ~store.open
    /\ \E r \in {open(disk, passphrase)} :
       LET st == r.store
       IN IF r.result # "Ok"
          THEN CliReturn("cli_policy_remove", id, r.result, NoneStr)
          ELSE IF id \notin DOMAIN st.policies
          THEN CliReturn("cli_policy_remove", id, "Ok", NoneStr)
          ELSE CliSave([st EXCEPT !.policies = Remove(@, id)], disk, saved,
                       "cli_policy_remove", id, NoArg, NoneStr)
    /\ UNCHANGED evalOut

\* The options of policy update that were not given.
NoOptions ==
    [skew |-> NoneInt, timezone |-> NoneStr, max_attempts |-> NoneInt,
     single_use |-> FALSE, multi_use |-> FALSE]

\* The option sets handed to policy update.  (--enable and --disable set a
\* field that the Policy of policy.rs does not have; they are left out.)
UpdateInputs ==
    {NoOptions,
     [NoOptions EXCEPT !.skew = 60],
     [NoOptions EXCEPT !.single_use = TRUE],
     [NoOptions EXCEPT !.multi_use = TRUE, !.timezone = "UTC"]}

\* policy_update: whether any option was given.
Updated(opts) ==
    \/ opts.skew # NoneInt
    \/ opts.timezone # NoneStr
    \/ opts.max_attempts # NoneInt
    \/ opts.single_use
    \/ opts.multi_use

\* policy_update: the fields set from the options.
ApplyOptions(policy, opts) ==
    [policy EXCEPT
       !.clock_skew_secs = IF opts.skew # NoneInt THEN opts.skew ELSE @,
       !.timezone = IF opts.timezone # NoneStr THEN opts.timezone ELSE @,
       !.max_attempts = IF opts.max_attempts # NoneInt THEN opts.max_attempts ELSE @,
       !.single_use = IF opts.single_use THEN TRUE
                      ELSE IF opts.multi_use THEN FALSE ELSE @]

\* commands::policy_update; the version is capped at MaxVersion.
cli_policy_update(passphrase, id, opts) ==
    /\ ~store.open
    /\ \E r \in {open(disk, passphrase)} :
       LET st == r.store
       IN IF r.result # "Ok"
          THEN CliReturn("cli_policy_update", id, r.result, NoneStr)
          ELSE IF id \notin DOMAIN st.policies
          THEN CliReturn("cli_policy_update", id, "Err(Policy not found)", NoneStr)
          ELSE IF ~Updated(opts)
          THEN CliReturn("cli_policy_update", id, "Ok", "No changes requested")
          ELSE LET policy == [ApplyOptions(st.policies[id], opts) EXCEPT !.version = @ + 1]
               IN /\ st.policies[id].version < MaxVersion
                  /\ CliSave([st EXCEPT !.policies = Insert(@, policy.id, policy)], disk, saved,
                             "cli_policy_update", id, opts, NoneStr)
    /\ UNCHANGED evalOut

\* The ids given with --id to policy add.
CliPolicyIds == {NoneStr, "p1"}

\* The secret bytes entered at the prompt of rotate.
NewSecret == "s2"

\* The credentials that get and rotate are called for.
CliUseIds == {"c1"}

NextCli ==
    \/ \E p \in InitPassphrases, s \in FreshSalts, o \in CliOutcomes :
         cli_init(p, s, o)
    \/ \E p \in InitPassphrases, id \in CredIds, pol \in CliPolicies \cup {NoArg} :
         cli_add(p, id, "s1", pol)
    \/ \E p \in InitPassphrases, id \in CliUseIds : cli_get(p, id)
    \/ \E p \in InitPassphrases, id \in CredIds : cli_remove(p, id)
    \/ \E p \in Passphrases : cli_list(p)
    \/ \E p \in InitPassphrases, id \in CliUseIds : cli_rotate(p, id, NewSecret)
    \/ \E p \in InitPassphrases, n \in CliPolicyIds, f \in CliPolicies :
         cli_policy_add(p, n, f)
    \/ \E p \in InitPassphrases, id \in PolicyIds : cli_policy_get(p, id)
    \/ \E p \in InitPassphrases, id \in PolicyIds : cli_policy_remove(p, id)
    \/ \E p \in InitPassphrases, id \in PolicyIds, u \in UpdateInputs :
         cli_policy_update(p, id, u)
    \/ Tick

SpecCli == Init /\ [][NextCli]_vars

(***************************************************************************)
(* The get specification: one store, one credential added with or without  *)
(* a policy file and left in place with its policy, and any sequence of    *)
(* get commands.  evalOut counts the commands that printed the secret.     *)
(***************************************************************************)
\* The values of max_attempts in the policy files.
GetAttempts == 0..MaxUsage

\* The policy files handed to add --policy (NoArg: no --policy option).
GetPolicies ==
    {NoArg, NewPolicy("p1", <<>>, TRUE, NoneInt), NewPolicy("p1", <<>>, TRUE, 1)}
    \cup {NewPolicy("p1", <<>>, FALSE, n) : n \in GetAttempts}

\* What get printed is the secret (and neither nothing nor the denial).
Printed(out) == out \notin {NoneStr, "ACCESS DENIED", "No changes requested"}

\* commands::get, counted.
get_counted(passphrase, id) ==
    /\ get(passphrase, id)
    /\ evalOut' = [released |-> evalOut.released + IF Printed(last'.out) THEN 1 ELSE 0]

InitGet ==
    /\ store = Closed
    /\ disk = NoFile
    /\ now = 0
    /\ last = Result("none", "", "Ok", "none")
    /\ saved = NoSave
    /\ nfail = 0
    /\ evalIn = NoInput
    /\ evalOut = [released |-> 0]

NextGet ==
    \/ \E p \in InitPassphrases, s \in FreshSalts, o \in CliOutcomes :
         cli_init(p, s, o)
    \/ \E p \in InitPassphrases, pol \in GetPolicies : cli_add(p, "c1", "s1", pol)
    \/ \E p \in Passphrases, id \in CredIds : get_counted(p, id)
    \/ Tick

SpecGet == InitGet /\ [][NextGet]_vars

(***************************************************************************)
(* tui.rs: the App of the terminal interface.  run opens the store and     *)
(* keeps it for the whole session; the fields of App that the reveal of a  *)
(* secret reads or writes are kept in evalIn: the index selected in the    *)
(* list, selected_cred, show_secret, the clipboard and the status line.    *)
(* The search, add, rotate and delete modes are left out, and of the       *)
(* navigation keys only Down is modelled.                                  *)
(***************************************************************************)
NoCred == [id |-> NoneStr]

\* No App is running.
NoApp ==
    [running |-> FALSE, selected |-> 0, selected_cred |-> NoCred, show_secret |-> FALSE,
     clipboard |-> NoneStr, status_message |-> NoneStr]

\* refresh_list: the ids of the store, sorted.
SortedItems(st) == SelectSeq(<<"c1", "c2">>, LAMBDA id : id \in DOMAIN st.credentials)

\* update_selection: the clone of the credential under the selected index;
\* the secret is hidden again.
update_selection(app, st, i) ==
    [app EXCEPT !.selected = i,
                !.selected_cred = st.credentials[SortedItems(st)[i]],
                !.show_secret = FALSE]

\* App::new: refresh_list and update_filter select the first item, if any.
\* clipboard: what Clipboard::new().ok() gave ("unavailable" for None).
AppNew(st, clipboard) ==
    LET app == [NoApp EXCEPT !.running = TRUE, !.clipboard = clipboard]
    IN IF SortedItems(st) = <<>> THEN app ELSE update_selection(app, st, 1)

\* ui: the text drawn after "Secret: ".
secret_display(app) ==
    IF app.selected_cred = NoCred THEN NoneStr
    ELSE IF app.show_secret THEN app.selected_cred.secret.data
    ELSE "****************"

\* A handler of App returns without calling save().
TuiReturn(op, app1) ==
    /\ evalIn' = app1
    /\ last' = [Result(op, app1.selected_cred.id, "Ok", "none")
                   EXCEPT !.out = secret_display(app1)]
    /\ UNCHANGED <<store, disk, saved, nfail, now, evalOut>>

\* store.increment_usage(id) called by a handler of App that has revealed
\* the secret (out), and the return of the handler: on Ok selected_cred is
\* read again from the store, on Err the status line reports the error.
\* The store keeps the incremented counter in both cases.  The process may
\* be killed inside save().
TuiIncrement(op, id, app1, out) ==
    IF id \notin DOMAIN store.credentials
    THEN /\ evalIn' = [app1 EXCEPT !.status_message = "Error updating usage"]
         /\ last' = [Result(op, id, "Ok", "none") EXCEPT !.out = out]
         /\ UNCHANGED <<store, disk, saved, nfail, now, evalOut>>
    ELSE /\ store.credentials[id].usage_counter < MaxUsage
         /\ \E outcome \in CliOutcomes :
            /\ (outcome # "ok") => nfail < MaxFail
            /\ \E nonce \in Drawn(outcome, FreshNonces),
                  co \in Drawn(outcome, Orders(DOMAIN store.credentials)),
                  po \in Drawn(outcome, Orders(DOMAIN store.policies)) :
               LET st1 == [store EXCEPT !.credentials[id].usage_counter = @ + 1,
                                        !.credentials[id].updated_at = now]
               IN \E r \in {save(st1, disk, outcome, nonce, co, po)} :
                  /\ store' = IF r.alive THEN st1 ELSE Closed
                  /\ disk' = r.disk
                  /\ saved' = IF r.disk # disk THEN SavedAs(st1, r.disk.bytes) ELSE saved
                  /\ evalIn' = IF ~r.alive THEN NoApp
                               ELSE IF r.result = "Ok"
                               THEN [app1 EXCEPT !.selected_cred = st1.credentials[id]]
                               ELSE [app1 EXCEPT !.status_message = "Error updating usage"]
                  /\ last' = [Result(op, id, IF r.alive THEN "Ok" ELSE r.result,
                                     SaveClass(outcome))
                                 EXCEPT !.out = out]
            /\ nfail' = IF outcome = "ok" THEN nfail ELSE nfail + 1
         /\ UNCHANGED <<now, evalOut>>

\* tui::run: the store is opened and handed to App::new.
tui_run(passphrase, clipboard) ==
    /\ ~store.open
    /\ ~evalIn.running
    /\ \E r \in {open(disk, passphrase)} :
         /\ store' = r.store
         /\ evalIn' = IF r.result = "Ok" THEN AppNew(r.store, clipboard) ELSE NoApp
         /\ last' = Result("tui_run", passphrase, r.result, "none")
    /\ UNCHANGED <<disk, saved, nfail, now, evalOut>>

\* Key q: run_app returns and run drops the App with its store.
tui_quit ==
    /\ evalIn.running
    /\ store' = Closed
    /\ evalIn' = NoApp
    /\ last' = Result("tui_quit", "", "Ok", "none")
    /\ UNCHANGED <<disk, saved, nfail, now, evalOut>>

\* App::on_down.
on_down ==
    /\ evalIn.running
    /\ LET n == Len(SortedItems(store))
           i == IF evalIn.selected = 0 \/ evalIn.selected >= n THEN 1
                ELSE evalIn.selected + 1
       IN IF n = 0 THEN TuiReturn("on_down", evalIn)
          ELSE TuiReturn("on_down", update_selection(evalIn, store, i))

\* App::toggle_secret (key Enter): show_secret is flipped; when the secret
\* becomes visible the usage of the selected credential is incremented.
toggle_secret ==
    /\ evalIn.running
    /\ LET app1 == [evalIn EXCEPT !.show_secret = ~@]
       IN IF app1.show_secret /\ app1.selected_cred # NoCred
          THEN TuiIncrement("toggle_secret", app1.selected_cred.id, app1,
                            secret_display(app1))
          ELSE TuiReturn("toggle_secret", app1)

\* App::copy_secret (key c): the secret of the selected credential is put on
\* the clipboard, and if that succeeded the usage is incremented.  set_text:
\* whether Clipboard::set_text returned Ok.
copy_secret(set_text) ==
    /\ evalIn.running
    /\ IF evalIn.selected_cred = NoCred
       THEN set_text /\ TuiReturn("copy_secret", evalIn)
       ELSE IF evalIn.clipboard = "unavailable"
       THEN set_text
            /\ TuiReturn("copy_secret",
                         [evalIn EXCEPT !.status_message = "Clipboard not available"])
       ELSE IF ~set_text
       THEN TuiReturn("copy_secret", [evalIn EXCEPT !.status_message = "Clipboard error"])
       ELSE TuiIncrement("copy_secret", evalIn.selected_cred.id,
                         [evalIn EXCEPT !.clipboard = evalIn.selected_cred.secret.data,
                                        !.status_message = "Secret copied to clipboard!"],
                         evalIn.selected_cred.secret.data)

InitTui ==
    /\ store = Closed
    /\ disk = NoFile
    /\ now = 0
    /\ last = Result("none", "", "Ok", "none")
    /\ saved = NoSave
    /\ nfail = 0
    /\ evalIn = NoApp
    /\ evalOut = NoEval

\* The session of one user: the store is set up with the CLI, then read in
\* the terminal interface.
NextTui ==
    \/ \E p \in InitPassphrases, s \in FreshSalts : cli_init(p, s, "ok")
    \/ \E p \in InitPassphrases, pol \in GetPolicies : cli_add(p, "c1", "s1", pol)
    \/ \E p \in InitPassphrases : cli_add(p, "c2", "s2", NoArg)
    \/ \E p \in Passphrases, cb \in {"", "unavailable"} : tui_run(p, cb)
    \/ tui_quit
    \/ on_down
    \/ toggle_secret
    \/ \E ok \in BOOLEAN : copy_secret(ok)
    \/ Tick

SpecTui == InitTui /\ [][NextTui]_vars

(***************************************************************************)
(* Two owners of one file: two processes that each hold a SecretStore      *)
(* opened from the same path.  store is the instance of the process that   *)
(* is running and evalIn the instance of the process that is waiting;      *)
(* Switch hands the processor to the other process.                        *)
(***************************************************************************)
Switch ==
    /\ store' = evalIn
    /\ evalIn' = store
    /\ last' = Result("switch", "", "Ok", "none")
    /\ UNCHANGED <<disk, saved, nfail, now, evalOut>>

\* The credentials the two processes add.
OwnerCredentials == {<<"c1", "s1", NoneStr>>, <<"c2", "s1", NoneStr>>}

\* How the calls of save() of the two processes end.
OwnerOutcomes == {"ok", "fail_write"}

InitOwners ==
    /\ store = Closed
    /\ disk = NoFile
    /\ now = 0
    /\ last = Result("none", "", "Ok", "none")
    /\ saved = NoSave
    /\ nfail = 0
    /\ evalIn = Closed
    /\ evalOut = NoEval

NextOwners ==
    \/ \E p \in InitPassphrases, s \in FreshSalts : cli_init(p, s, "ok")
    \/ \E p \in InitPassphrases : Open(p)
    \/ Close
    \/ \E c \in OwnerCredentials, o \in OwnerOutcomes :
         add_credential(NewCredential(c[1], c[2], c[3], now), o)
    \/ \E id \in CredIds, o \in OwnerOutcomes : increment_usage(id, o)
    \/ Switch
    \/ Tick

SpecOwners == InitOwners /\ [][NextOwners]_vars

(***************************************************************************)
(* Opening a damaged file.  The file is one that save() wrote; while no    *)
(* process holds the store it may be deleted, cut short, or changed in its *)
(* length prefix, its salt, its nonce or its tag; then it is opened.       *)
(***************************************************************************)
\* The maps of the stores whose files are opened: credentials, policies.
OpenMaps ==
    LET c1 == NewCredential("c1", "s1", NoneStr, 0)
        p1 == NewPolicy("p1", <<>>, FALSE, NoneInt)
        ph == NewPolicy("p1", <<[type |-> "onlyFor", duration_secs |-> 1]>>, FALSE, NoneInt)
    IN {<<EmptyMap, EmptyMap>>,
        <<Insert(EmptyMap, "c1", c1), EmptyMap>>,
        <<Insert(EmptyMap, "c1", c1), Insert(EmptyMap, "p1", p1)>>,
        <<EmptyMap, Insert(EmptyMap, "p1", ph)>>}

\* The file save() writes for the maps m under the passphrase pw1.
FileOf(m) ==
    LET st == [open |-> TRUE, master_key |-> derive_from_passphrase("pw1", 1).key,
               salt |-> 1, credentials |-> m[1], policies |-> m[2]]
        co == CHOOSE o \in Orders(DOMAIN m[1]) : TRUE
        po == CHOOSE o \in Orders(DOMAIN m[2]) : TRUE
    IN [file |-> save(st, NoFile, "ok", 0, co, po).disk, st |-> st]

\* The damages: the file is deleted, cut to its first k cells, its length
\* prefix is set to n, or a bit of one cell is flipped (salt4: the flip
\* that leaves no valid salt).
FileDamages ==
    {"delete", "cut0", "cut1", "cut2", "cut3", "cut4", "cut5",
     "len0", "len1", "len3", "len5", "len6", "salt", "salt4", "nonce", "tag"}

CutAt(d) ==
    CASE d = "cut0" -> 0 [] d = "cut1" -> 1 [] d = "cut2" -> 2
      [] d = "cut3" -> 3 [] d = "cut4" -> 4 [] OTHER -> 5

LenOf(d) ==
    CASE d = "len0" -> 0 [] d = "len1" -> 1 [] d = "len3" -> 3
      [] d = "len5" -> 5 [] OTHER -> 6

DamagedFile(file, d) ==
    IF d = "delete" THEN NoFile
    ELSE IF d \in {"cut0", "cut1", "cut2", "cut3", "cut4", "cut5"}
    THEN [file EXCEPT !.bytes = SubSeq(@, 1, CutAt(d))]
    ELSE IF d \in {"len0", "len1", "len3", "len5", "len6"}
    THEN [file EXCEPT !.bytes[1] = LenOf(d)]
    ELSE IF d = "salt" THEN [file EXCEPT !.bytes[3] = FlipBit(@, 1)]
    ELSE IF d = "salt4" THEN [file EXCEPT !.bytes[3] = FlipBit(@, 2)]
    ELSE IF d = "nonce" THEN [file EXCEPT !.bytes[4] = FlipBit(@, 0)]
    ELSE [file EXCEPT !.bytes[6] = [@ EXCEPT !.x = FlipBit(@, 0)]]

\* The file is damaged while no process holds the store.
Damage(d) ==
    /\ ~store.open
    /\ nfail < MaxFail
    /\ saved.valid /\ disk.exists /\ disk.bytes = saved.bytes
    /\ disk' = DamagedFile(disk, d)
    /\ last' = Result("damage", d, "Ok", "none")
    /\ nfail' = nfail + 1
    /\ UNCHANGED <<store, saved, now, evalIn, evalOut>>

InitOpen ==
    /\ store = Closed
    /\ \E m \in OpenMaps :
         /\ disk = FileOf(m).file
         /\ saved = SavedAs(FileOf(m).st, FileOf(m).file.bytes)
    /\ now = 0
    /\ last = Result("none", "", "Ok", "none")
    /\ nfail = 0
    /\ evalIn = NoInput
    /\ evalOut = NoEval

NextOpen ==
    \/ \E d \in FileDamages : Damage(d)
    \/ \E p \in Passphrases : Open(p)
    \/ Close

SpecOpen == InitOpen /\ [][NextOpen]_vars

(***************************************************************************)
(* The evaluation specification: evaluate applied to a policy and a        *)
(* context drawn from bounded sets.                                        *)
(***************************************************************************)
MaxHooks == 2
MaxEvalTime == 2
MaxCount == 2

Instant(t) == [type |-> "instant", value |-> t]
Range(a, b) == [type |-> "range", start |-> a, end |-> b]
Duration(n) == [type |-> "duration", seconds |-> n]

HookInputs ==
    {[type |-> "onlyBefore", period |-> Instant(1)],
     [type |-> "onlyBefore", period |-> Range(0, 1)],
     [type |-> "onlyAfter", period |-> Instant(1)],
     [type |-> "onlyAfter", period |-> Duration(1)],
     [type |-> "onlyWithin", period |-> Range(1, MaxEvalTime)],
     [type |-> "onlyWithin", period |-> Instant(1)]}
    \cup {[type |-> "onlyFor", duration_secs |-> d] : d \in {1, DURATION_MAX_SECS, 2 * I64_MAX + 1}}

HookLists == UNION {[1..n -> HookInputs] : n \in 0..MaxHooks}

EvalPolicies ==
    {NewPolicy("p1", hooks, single, max) :
        hooks \in HookLists, single \in BOOLEAN, max \in {NoneInt} \cup 0..MaxCount}

EvalContexts ==
    {[now |-> t, created_at |-> c, last_used_at |-> NoneInt, usage_count |-> u] :
        t \in 0..MaxEvalTime, c \in {NoneInt} \cup 0..1, u \in 0..MaxCount}

InitEval ==
    /\ store = Closed
    /\ disk = NoFile
    /\ now = 0
    /\ last = Result("none", "", "Ok", "none")
    /\ saved = NoSave
    /\ nfail = 0
    /\ evalIn \in [policy : EvalPolicies, ctx : EvalContexts]
    /\ evalOut = NoEval

\* Faulty variant of Evaluate: the evaluation counts itself as a use.
Evaluate_consuming ==
    /\ evalOut' = evaluate(evalIn.policy, evalIn.ctx)
    /\ evalIn' = [evalIn EXCEPT !.ctx.usage_count = IF @ < MaxCount THEN @ + 1 ELSE @]
    /\ UNCHANGED <<store, disk, now, last, saved, nfail>>

\* policy.evaluate(&ctx), any number of times on the same policy and
\* context: both are borrowed immutably.
Evaluate ==
    /\ evalOut' = evaluate(evalIn.policy, evalIn.ctx)
    /\ UNCHANGED <<evalIn, store, disk, now, last, saved, nfail>>

NextEval == Evaluate

SpecEval == InitEval /\ [][NextEval]_vars

(***************************************************************************)
(* The specification of the hook kinds: policies without usage limits     *)
(* whose hooks range over every kind with every period shape.              *)
(***************************************************************************)
ShapeHooks ==
    {[type |-> "onlyBefore", period |-> p] :
        p \in {Instant(1), Instant(MaxEvalTime), Range(0, MaxEvalTime), Duration(1)}}
    \cup {[type |-> "onlyAfter", period |-> p] :
        p \in {Instant(0), Instant(1), Range(0, MaxEvalTime), Duration(1)}}
    \cup {[type |-> "onlyWithin", period |-> p] :
        p \in {Range(0, 1), Range(1, MaxEvalTime), Range(MaxEvalTime, 1),
               Instant(1), Duration(1)}}
    \cup {[type |-> "onlyFor", duration_secs |-> d] : d \in {1, DURATION_MAX_SECS, 2 * I64_MAX + 1}}

ShapeLists == UNION {[1..n -> ShapeHooks] : n \in 0..MaxHooks}

ShapePolicies == {NewPolicy("p1", hooks, FALSE, NoneInt) : hooks \in ShapeLists}

InitShapes ==
    /\ store = Closed
    /\ disk = NoFile
    /\ now = 0
    /\ last = Result("none", "", "Ok", "none")
    /\ saved = NoSave
    /\ nfail = 0
    /\ evalIn \in [policy : ShapePolicies, ctx : EvalContexts]
    /\ evalOut = NoEval

SpecShapes == InitShapes /\ [][NextEval]_vars

(***************************************************************************)
(* The specification of the fields evaluate does not read: policies that   *)
(* differ in id, timezone, clock_skew_secs and version, contexts that      *)
(* differ in last_used_at.                                                 *)
(***************************************************************************)
MaxFieldHooks == 1

DefaultFields == [id |-> "p1", timezone |-> "UTC", clock_skew_secs |-> 60, version |-> 1]

\* The default fields, each field changed alone, and all changed together.
FieldVariants ==
    {DefaultFields,
     [DefaultFields EXCEPT !.id = "p2"],
     [DefaultFields EXCEPT !.timezone = "Asia/Tokyo"],
     [DefaultFields EXCEPT !.clock_skew_secs = 0],
     [DefaultFields EXCEPT !.version = 2],
     [id |-> "p2", timezone |-> "Asia/Tokyo", clock_skew_secs |-> 0, version |-> 2]}

WithFields(policy, f) ==
    [policy EXCEPT !.id = f.id, !.timezone = f.timezone,
                   !.clock_skew_secs = f.clock_skew_secs, !.version = f.version]

FieldPolicies ==
    {WithFields(NewPolicy("p1", hooks, single, max), f) :
        hooks \in UNION {[1..n -> HookInputs] : n \in 0..MaxFieldHooks},
        single \in BOOLEAN, max \in {NoneInt} \cup 0..MaxCount, f \in FieldVariants}

FieldContexts ==
    {[ctx EXCEPT !.last_used_at = l] : ctx \in EvalContexts, l \in {NoneInt, 0}}

InitFields ==
    /\ store = Closed
    /\ disk = NoFile
    /\ now = 0
    /\ last = Result("none", "", "Ok", "none")
    /\ saved = NoSave
    /\ nfail = 0
    /\ evalIn \in [policy : FieldPolicies, ctx : FieldContexts]
    /\ evalOut = NoEval

SpecFields == InitFields /\ [][NextEval]_vars

(***************************************************************************)
(* The decryption specification: MasterKey::decrypt applied to what        *)
(* MasterKey::encrypt returned, damaged or not, under a key and with       *)
(* associated data that are those of the encryption or not.                *)
(***************************************************************************)
CryptoKeys == {[p |-> "pw1", s |-> 1], [p |-> "pw2", s |-> 1]}
CryptoPlaintexts == {<<"m1">>, <<"m2">>}
CryptoAads == {<<1, 1>>, <<1, 3>>}
CryptoNonces == {0, 1}

\* What happened to the blob between encrypt and decrypt: nothing, a bit of
\* the nonce, of the ciphertext or of the tag was flipped, or the blob was
\* cut down to its first 0, 1 or 2 cells (cut0: shorter than the nonce).
Damages == {"none", "nonce", "ciphertext", "tag", "cut0", "cut1", "cut2"}

Damaged(blob, d) ==
    CASE d = "none" -> blob
      [] d = "nonce" -> [blob EXCEPT ![1] = FlipBit(@, 0)]
      [] d = "ciphertext" -> [blob EXCEPT ![2].x = FlipBit(@, 0)]
      [] d = "tag" -> [blob EXCEPT ![3].x = FlipBit(@, 0)]
      [] d = "cut0" -> SubSeq(blob, 1, 0)
      [] d = "cut1" -> SubSeq(blob, 1, 1)
      [] OTHER -> SubSeq(blob, 1, 2)

InitCrypto ==
    /\ store = Closed
    /\ disk = NoFile
    /\ now = 0
    /\ last = Result("none", "", "Ok", "none")
    /\ saved = NoSave
    /\ nfail = 0
    /\ \E k \in CryptoKeys, pt \in CryptoPlaintexts, aad \in CryptoAads,
          n \in CryptoNonces, d \in Damages, k2 \in CryptoKeys, aad2 \in CryptoAads :
         evalIn = [enc |-> [key |-> k, plaintext |-> pt, associated_data |-> aad, nonce |-> n],
                   damage |-> d,
                   key |-> k2, associated_data |-> aad2,
                   ciphertext_with_nonce |-> Damaged(encrypt(k, pt, aad, n), d)]
    /\ evalOut = NoEval

\* MasterKey::decrypt is called on the input.
Decrypt ==
    /\ evalOut' = decrypt(evalIn.key, evalIn.ciphertext_with_nonce, evalIn.associated_data)
    /\ UNCHANGED <<evalIn, store, disk, now, last, saved, nfail>>

NextCrypto == Decrypt

SpecCrypto == InitCrypto /\ [][NextCrypto]_vars

(***************************************************************************)
(* The JSON interchange form: serde_json with the Serialize / Deserialize  *)
(* implementations derived in policy.rs and store.rs.  A JSON value is a   *)
(* record tagged with its kind; an object is the sequence of its members,  *)
(* each a pair << name, value >>.                                          *)
(***************************************************************************)
JNull == [j |-> "null"]
JBool(b) == [j |-> "bool", v |-> b]
JNum(n) == [j |-> "number", v |-> n]
JStr(x) == [j |-> "string", v |-> x]
JArr(a) == [j |-> "array", v |-> a]
JObj(members) == [j |-> "object", v |-> members]

\* The times a record of the model may carry.
JsonTimes == 0..9

\* chrono's Serialize for DateTime<Utc>: the RFC 3339 text of the instant.
Rfc3339(t) == "1970-01-01T00:00:0" \o ToString(t) \o "Z"

\* chrono's Deserialize for DateTime<Utc>: the instant the text denotes.
ParseRfc3339(x) ==
    IF \E t \in JsonTimes : Rfc3339(t) = x
    THEN [ok |-> TRUE, v |-> CHOOSE t \in JsonTimes : Rfc3339(t) = x]
    ELSE [ok |-> FALSE, v |-> 0]

\* Option<T>: None is null.
JOption(x, none, J(_)) == IF x = none THEN JNull ELSE J(x)

\* Period: internally tagged, variant names in camelCase.
to_json_period(p) ==
    CASE p.type = "instant" ->
           JObj(<<(<<"type", JStr("instant")>>), <<"value", JStr(Rfc3339(p.value))>>>>)
      [] p.type = "range" ->
           JObj(<<(<<"type", JStr("range")>>), <<"start", JStr(Rfc3339(p.start))>>,
                  <<"end", JStr(Rfc3339(p.end))>>>>)
      [] OTHER ->
           JObj(<<(<<"type", JStr("duration")>>), <<"seconds", JNum(p.seconds)>>>>)

\* Faulty variant of to_json_hook: the variant is written externally tagged,
\* as serde does without the tag attribute.
to_json_hook_externally_tagged(h) ==
    IF h.type = "onlyFor"
    THEN JObj(<<(<<h.type, JObj(<<(<<"duration_secs", JNum(h.duration_secs)>>)>>)>>)>>)
    ELSE JObj(<<(<<h.type, JObj(<<(<<"period", to_json_period(h.period)>>)>>)>>)>>)

\* Hook: internally tagged, variant names in camelCase, field names as written.
to_json_hook(h) ==
    IF h.type = "onlyFor"
    THEN JObj(<<(<<"type", JStr(h.type)>>), <<"duration_secs", JNum(h.duration_secs)>>>>)
    ELSE JObj(<<(<<"type", JStr(h.type)>>), <<"period", to_json_period(h.period)>>>>)

\* serde_json::to_string(&policy).
to_json_policy(p) ==
    JObj(<<(<<"id", JStr(p.id)>>),
           <<"hooks", JArr([i \in 1..Len(p.hooks) |-> to_json_hook(p.hooks[i])])>>,
           <<"timezone", JOption(p.timezone, NoneStr, JStr)>>,
           <<"clock_skew_secs", JNum(p.clock_skew_secs)>>,
           <<"max_attempts", JOption(p.max_attempts, NoneInt, JNum)>>,
           <<"single_use", JBool(p.single_use)>>,
           <<"version", JNum(p.version)>>>>)

\* serde_json::to_string(&cred).
to_json_credential(c) ==
    JObj(<<(<<"id", JStr(c.id)>>),
           <<"label", JStr(c.label)>>,
           <<"tags", JArr([i \in 1..Len(c.tags) |-> JStr(c.tags[i])])>>,
           <<"created_at", JStr(Rfc3339(c.created_at))>>,
           <<"updated_at", JStr(Rfc3339(c.updated_at))>>,
           <<"policy_id", JOption(c.policy_id, NoneStr, JStr)>>,
           <<"secret", JObj(<<(<<"type_", JStr(c.secret.type_)>>),
                              <<"data", JArr([i \in 1..Len(c.secret.data) |->
                                                 JNum(c.secret.data[i])])>>>>)>>,
           <<"usage_counter", JNum(c.usage_counter)>>>>)

\* Whether the object has a member of that name, and its value.
Has(obj, name) == \E i \in 1..Len(obj.v) : obj.v[i][1] = name
Member(obj, name) == obj.v[CHOOSE i \in 1..Len(obj.v) : obj.v[i][1] = name][2]

\* The object has the member and it is of that kind.
HasKind(obj, name, kind) == Has(obj, name) /\ Member(obj, name).j = kind

\* A member that holds a time.
HasTime(obj, name) ==
    HasKind(obj, name, "string") /\ ParseRfc3339(Member(obj, name).v).ok
TimeOf(obj, name) == ParseRfc3339(Member(obj, name).v).v

\* An Option<T> member: missing or null is None.
HasOption(obj, name, kind) ==
    Has(obj, name) => Member(obj, name).j \in {"null", kind}
OptionOf(obj, name, none) ==
    IF Has(obj, name) /\ Member(obj, name).j # "null" THEN Member(obj, name).v ELSE none

Failed == [ok |-> FALSE, v |-> NoArg]

\* Deserialize for Period: the member "type" selects the variant.
from_json_period(j) ==
    IF j.j # "object" \/ ~HasKind(j, "type", "string") THEN Failed
    ELSE LET tag == Member(j, "type").v IN
    IF tag = "instant" /\ HasTime(j, "value")
    THEN [ok |-> TRUE, v |-> [type |-> "instant", value |-> TimeOf(j, "value")]]
    ELSE IF tag = "range" /\ HasTime(j, "start") /\ HasTime(j, "end")
    THEN [ok |-> TRUE,
          v |-> [type |-> "range", start |-> TimeOf(j, "start"), end |-> TimeOf(j, "end")]]
    ELSE IF tag = "duration" /\ HasKind(j, "seconds", "number")
    THEN [ok |-> TRUE, v |-> [type |-> "duration", seconds |-> Member(j, "seconds").v]]
    ELSE Failed

\* Deserialize for Hook: the member "type" selects the variant.
from_json_hook(j) ==
    IF j.j # "object" \/ ~HasKind(j, "type", "string") THEN Failed
    ELSE LET tag == Member(j, "type").v IN
    IF tag = "onlyFor" /\ HasKind(j, "duration_secs", "number")
    THEN [ok |-> TRUE,
          v |-> [type |-> "onlyFor", duration_secs |-> Member(j, "duration_secs").v]]
    ELSE IF tag \in {"onlyBefore", "onlyAfter", "onlyWithin"}
            /\ Has(j, "period") /\ from_json_period(Member(j, "period")).ok
    THEN [ok |-> TRUE,
          v |-> [type |-> tag, period |-> from_json_period(Member(j, "period")).v]]
    ELSE Failed

\* serde_json::from_str::<Policy>.
from_json_policy(j) ==
    IF /\ j.j = "object"
       /\ HasKind(j, "id", "string")
       /\ HasKind(j, "hooks", "array")
       /\ \A i \in 1..Len(Member(j, "hooks").v) : from_json_hook(Member(j, "hooks").v[i]).ok
       /\ HasOption(j, "timezone", "string")
       /\ HasKind(j, "clock_skew_secs", "number")
       /\ HasOption(j, "max_attempts", "number")
       /\ HasKind(j, "single_use", "bool")
       /\ HasKind(j, "version", "number")
    THEN [ok |-> TRUE,
          v |-> [id |-> Member(j, "id").v,
                 hooks |-> [i \in 1..Len(Member(j, "hooks").v) |->
                              from_json_hook(Member(j, "hooks").v[i]).v],
                 timezone |-> OptionOf(j, "timezone", NoneStr),
                 clock_skew_secs |-> Member(j, "clock_skew_secs").v,
                 max_attempts |-> OptionOf(j, "max_attempts", NoneInt),
                 single_use |-> Member(j, "single_use").v,
                 version |-> Member(j, "version").v]]
    ELSE Failed

\* serde_json::from_str::<Credential>.
from_json_credential(j) ==
    IF /\ j.j = "object"
       /\ HasKind(j, "id", "string")
       /\ HasKind(j, "label", "string")
       /\ HasKind(j, "tags", "array")
       /\ \A i \in 1..Len(Member(j, "tags").v) : Member(j, "tags").v[i].j = "string"
       /\ HasTime(j, "created_at")
       /\ HasTime(j, "updated_at")
       /\ HasOption(j, "policy_id", "string")
       /\ HasKind(j, "secret", "object")
       /\ HasKind(Member(j, "secret"), "type_", "string")
       /\ Member(Member(j, "secret"), "type_").v \in {"Password", "Key", "Token"}
       /\ HasKind(Member(j, "secret"), "data", "array")
       /\ \A i \in 1..Len(Member(Member(j, "secret"), "data").v) :
             /\ Member(Member(j, "secret"), "data").v[i].j = "number"
             /\ Member(Member(j, "secret"), "data").v[i].v \in 0..255
       /\ HasKind(j, "usage_counter", "number")
    THEN [ok |-> TRUE,
          v |-> [id |-> Member(j, "id").v,
                 label |-> Member(j, "label").v,
                 tags |-> [i \in 1..Len(Member(j, "tags").v) |-> Member(j, "tags").v[i].v],
                 created_at |-> TimeOf(j, "created_at"),
                 updated_at |-> TimeOf(j, "updated_at"),
                 policy_id |-> OptionOf(j, "policy_id", NoneStr),
                 secret |-> [type_ |-> Member(Member(j, "secret"), "type_").v,
                             data |-> [i \in 1..Len(Member(Member(j, "secret"), "data").v) |->
                                         Member(Member(j, "secret"), "data").v[i].v]],
                 usage_counter |-> Member(j, "usage_counter").v]]
    ELSE Failed

\* The records that are written and read back: policies with up to MaxHooks
\* hooks of every variant and period, with and without timezone and
\* max_attempts; credentials of every secret type.
JsonHooks ==
    {[type |-> "onlyBefore", period |-> Instant(1)],
     [type |-> "onlyAfter", period |-> Range(0, MaxEvalTime)],
     [type |-> "onlyWithin", period |-> Range(1, MaxEvalTime)],
     [type |-> "onlyWithin", period |-> Duration(1)],
     [type |-> "onlyFor", duration_secs |-> 1],
     [type |-> "onlyFor", duration_secs |-> 2 * I64_MAX + 1]}

JsonPolicies ==
    {[NewPolicy(id, hooks, single, max) EXCEPT !.timezone = tz, !.clock_skew_secs = skew] :
        id \in {"test-policy"},
        hooks \in UNION {[1..n -> JsonHooks] : n \in 0..MaxHooks},
        single \in BOOLEAN, max \in {NoneInt, 3}, tz \in {NoneStr, "UTC"},
        skew \in {60, 120}}

JsonCredentials ==
    {[NewCredential(id, data, pid, t) EXCEPT !.secret.type_ = ty, !.tags = tags,
                                            !.usage_counter = n] :
        id \in {"test-cred"}, data \in {<<>>, <<115, 101, 99>>, <<0, 255>>},
        pid \in {NoneStr, "test-policy"}, t \in {0, 1},
        ty \in {"Password", "Key", "Token"}, tags \in {<<>>, <<"a", "b">>}, n \in {0, 1}}

InitJson ==
    /\ store = Closed
    /\ disk = NoFile
    /\ now = 0
    /\ last = Result("none", "", "Ok", "none")
    /\ saved = NoSave
    /\ nfail = 0
    /\ evalIn \in [kind : {"policy"}, value : JsonPolicies]
                  \cup [kind : {"credential"}, value : JsonCredentials]
    /\ evalOut = NoEval

\* test_policy_serialization: to_string_pretty, then from_str.
policy_serialization ==
    /\ evalIn.kind = "policy"
    /\ evalOut' = from_json_policy(to_json_policy(evalIn.value))
    /\ UNCHANGED <<evalIn, store, disk, now, last, saved, nfail>>

\* test_credential_serialization: to_string_pretty, then from_str.
credential_serialization ==
    /\ evalIn.kind = "credential"
    /\ evalOut' = from_json_credential(to_json_credential(evalIn.value))
    /\ UNCHANGED <<evalIn, store, disk, now, last, saved, nfail>>

NextJson == policy_serialization \/ credential_serialization

SpecJson == InitJson /\ [][NextJson]_vars

(***************************************************************************)
(* Buffers that hold secret material, and their release.  A buffer is      *)
(* named after the local or the field that owns it, and has the type of    *)
(* that owner; when the owner is dropped or overwritten the buffer is      *)
(* released, and it is wiped first exactly if the type of the owner        *)
(* implements ZeroizeOnDrop.  A call is an operation, the credentials in   *)
(* the store and the exit it takes; the buffers it releases are those      *)
(* whose owner goes out of scope on that exit without being moved out.     *)
(***************************************************************************)
\* crypto.rs:17, crypto.rs:42, store.rs:20: the types that derive ZeroizeOnDrop.
ZeroizeOnDrop == {"Secret", "MasterKey", "CredentialSecret"}

Buffer(name, type, holds) == [name |-> name, type |-> type, holds |-> holds]

\* Drop of the owner of a buffer.
Dropped(b) ==
    [name |-> b.name, type |-> b.type, holds |-> b.holds, wiped |-> b.type \in ZeroizeOnDrop]

\* The secret of each credential in a clone or in a decoded copy of the map.
SecretsOf(owner, ids) ==
    {Buffer(owner \o "[" \o id \o "].secret", "CredentialSecret", "plaintext") : id \in ids}

\* SecretStore::save: the exits, in the order they are met.
SaveExits ==
    <<"Err(serialize header)", "Err(serialize payload)", "Err(encrypt)",
      "Err(create)", "Err(write)", "Err(persist)", "Ok">>

\* SecretStore::open: the exits, in the order they are met.
OpenExits ==
    <<"Err(Io)", "Err(File too short)", "Err(File truncated)", "Err(deserialize header)",
      "Err(derive)", "Err(decrypt)", "Err(deserialize payload)", "Ok">>

\* commands::prompt_passphrase: the exits, in the order they are met.
PromptExits == <<"Err(read)", "Err(read confirm)", "Err(mismatch)", "Ok">>

\* commands::rotate after open_store_helper: the exits, in the order they are met.
RotateExits == <<"Err(Credential not found)", "Err(prompt_secret)", "Err(save)", "Ok">>

\* The position of an exit in the order of the exits.
Position(exits, e) == CHOOSE i \in 1..Len(exits) : exits[i] = e

\* The exit e is taken after the exit f has been passed.
After(exits, e, f) == Position(exits, e) > Position(exits, f)

\* save: the clone of the credentials in payload (line 143) lives from the
\* header on, payload_bytes (line 146) from its serialization on; both are
\* dropped at the end of the call.
save_buffers(ids, exit) ==
    (IF After(SaveExits, exit, "Err(serialize header)")
     THEN SecretsOf("payload.credentials", ids) ELSE {})
    \cup (IF After(SaveExits, exit, "Err(serialize payload)")
          THEN {Buffer("payload_bytes", "Vec<u8>", "plaintext")} ELSE {})

\* open: master_key (line 117) is dropped on the errors that follow the
\* derivation and moved into the store on Ok; decrypted_bytes (line 120) is
\* dropped at the end of the call; the decoded credentials are dropped with
\* a payload that failed to decode and moved into the store on Ok.
open_buffers(ids, exit) ==
    (IF exit \in {"Err(decrypt)", "Err(deserialize payload)"}
     THEN {Buffer("master_key", "MasterKey", "key")} ELSE {})
    \cup (IF exit \in {"Err(deserialize payload)", "Ok"}
          THEN {Buffer("decrypted_bytes", "Vec<u8>", "plaintext")} ELSE {})
    \cup (IF exit = "Err(deserialize payload)"
          THEN SecretsOf("payload.credentials", ids) ELSE {})

\* prompt_passphrase: pass (line 14) is moved into the Secret on Ok and
\* dropped as a String on the errors that follow its reading; confirm_pass
\* (line 19) is dropped as a String once it was read.
prompt_passphrase_buffers(confirm, exit) ==
    (IF exit \in {"Err(read confirm)", "Err(mismatch)"}
     THEN {Buffer("pass", "String", "passphrase")} ELSE {})
    \cup (IF confirm /\ exit \in {"Err(mismatch)", "Ok"}
          THEN {Buffer("confirm_pass", "String", "passphrase")} ELSE {})

\* rotate: passphrase and the store (its key and its credentials) are
\* dropped at every exit; the assignment cred.secret.data = new_secret_data
\* (line 253) drops the Vec that held the old bytes in the clone, and
\* add_credential (line 255) drops the credential that insert replaced.
rotate_buffers(ids, exit) ==
    {Buffer("passphrase", "Secret", "passphrase"),
     Buffer("store.master_key", "MasterKey", "key")}
    \cup SecretsOf("store.credentials", ids)
    \cup (IF exit \in {"Err(save)", "Ok"}
          THEN {Buffer("cred.secret.data (old)", "Vec<u8>", "plaintext"),
                Buffer("replaced.secret", "CredentialSecret", "plaintext")}
          ELSE {})

Range1(seq) == {seq[i] : i \in 1..Len(seq)}

\* The calls: an operation, the ids of the credentials held, and an exit.
Calls ==
    [op : {"save"}, ids : SUBSET CredIds, confirm : {FALSE}, exit : Range1(SaveExits)]
    \cup [op : {"open"}, ids : SUBSET CredIds, confirm : {FALSE}, exit : Range1(OpenExits)]
    \cup [op : {"prompt_passphrase"}, ids : {{}}, confirm : BOOLEAN,
          exit : Range1(PromptExits)]
    \cup {c \in [op : {"rotate"}, ids : SUBSET CredIds, confirm : {FALSE},
                 exit : Range1(RotateExits)] :
            (c.exit = "Err(Credential not found)") <=> ("c1" \notin c.ids)}

\* prompt_passphrase reads confirm_pass only if confirm is set.
PossibleCalls ==
    {c \in Calls : (c.op = "prompt_passphrase" /\ ~c.confirm)
                      => c.exit \in {"Err(read)", "Ok"}}

InitMemory ==
    /\ store = Closed
    /\ disk = NoFile
    /\ now = 0
    /\ last = Result("none", "", "Ok", "none")
    /\ saved = NoSave
    /\ nfail = 0
    /\ evalIn \in PossibleCalls
    /\ evalOut = NoEval

\* The call returns: what it released, each buffer as its drop left it.
Returns(op, buffers) ==
    /\ evalIn.op = op
    /\ evalOut' = [released |-> {Dropped(b) : b \in buffers}]
    /\ UNCHANGED <<evalIn, store, disk, now, last, saved, nfail>>

save_returns == Returns("save", save_buffers(evalIn.ids, evalIn.exit))

open_returns == Returns("open", open_buffers(evalIn.ids, evalIn.exit))

prompt_passphrase_returns ==
    Returns("prompt_passphrase", prompt_passphrase_buffers(evalIn.confirm, evalIn.exit))

rotate_returns == Returns("rotate", rotate_buffers(evalIn.ids, evalIn.exit))

NextMemory ==
    \/ save_returns
    \/ open_returns
    \/ prompt_passphrase_returns
    \/ rotate_returns

SpecMemory == InitMemory /\ [][NextMemory]_vars

(***************************************************************************)
(* Properties of the store (specification Spec).                           *)
(***************************************************************************)
MutatingOps ==
    {"add_credential", "remove_credential", "add_policy", "remove_policy", "increment_usage"}

ReadOps == {"get_credential", "list_credentials", "get_policy", "list_policies"}

\* The file is a complete container whose payload, decrypted under key with
\* the header bytes of the file as associated data, is the encoding of
\* exactly these credentials and policies.
Holds(file, key, credentials, policies) ==
    /\ file.exists
    /\ Len(file.bytes) >= LEN_PREFIX
    /\ Len(file.bytes) = LEN_PREFIX + file.bytes[1] + NONCE_LEN + 2
    /\ LET header_bytes == SubSeq(file.bytes, LEN_PREFIX + 1, LEN_PREFIX + file.bytes[1])
           payload == decrypt(key,
                              SubSeq(file.bytes, LEN_PREFIX + file.bytes[1] + 1, Len(file.bytes)),
                              header_bytes)
       IN /\ deserialize_header(header_bytes).ok
          /\ payload.ok
          /\ Len(payload.pt.credentials) = Cardinality(DOMAIN credentials)
          /\ {payload.pt.credentials[i] : i \in 1..Len(payload.pt.credentials)}
               = {<<id, serialize_credential(credentials[id])>> : id \in DOMAIN credentials}
          /\ Len(payload.pt.policies) = Cardinality(DOMAIN policies)
          /\ {payload.pt.policies[i] : i \in 1..Len(payload.pt.policies)}
               = {<<id, serialize_policy(policies[id])>> : id \in DOMAIN policies}

\* The file at the store path is byte for byte the one the last save wrote.
Untampered == saved.valid /\ disk.exists /\ disk.bytes = saved.bytes

\* C1: open with the passphrase of the store, on the file as the last save
\* wrote it, succeeds and yields credential and policy maps equal to the maps
\* that were saved.
C1_RoundTrip ==
    (last.op = "open" /\ Untampered /\ last.id = saved.key.p) =>
        /\ last.result = "Ok"
        /\ store.open
        /\ store.credentials = saved.credentials
        /\ store.policies = saved.policies

\* C2: open with a passphrase other than the one the store was saved under
\* fails with the generic decryption failure and no store is returned.
C2_WrongPassphraseRejected ==
    (last.op = "open" /\ Untampered /\ last.id # saved.key.p) =>
        /\ last.result = "Err(Crypto(Decryption failed))"
        /\ store = Closed

C2_Witness ==
    /\ last.op = "open"
    /\ Untampered
    /\ last.id # saved.key.p
    /\ DOMAIN saved.credentials # {}
    /\ DOMAIN saved.policies # {}
    /\ last.result = "Err(Crypto(Decryption failed))"

\* C3: when one bit of the version, salt, nonce, ciphertext or tag of the
\* saved file has been flipped, open fails and returns no store, whatever
\* the passphrase; and an open that succeeds yields exactly the saved maps.
C3_TamperDetected ==
    (last.op = "open" /\ saved.valid) =>
        /\ (disk.bytes # saved.bytes) => (last.result # "Ok" /\ store = Closed)
        /\ (last.result = "Ok") =>
              (store.credentials = saved.credentials /\ store.policies = saved.policies)

\* A flipped version bit, which only the associated data protects, on a file
\* that opens when left intact.
C3_Witness ==
    /\ last.op = "open"
    /\ saved.valid
    /\ last.id = saved.key.p
    /\ DOMAIN saved.credentials # {}
    /\ \A id \in DOMAIN saved.policies : saved.policies[id].hooks = <<>>
    /\ disk.exists
    /\ disk.bytes[2] # STORE_VERSION
    /\ disk.bytes[3] = saved.bytes[3]
    /\ last.result = "Err(Crypto(Decryption failed))"

\* C4: a step in which save() runs leaves the file at the store path either
\* as it was or as a complete container of the maps being saved, and leaves
\* it as it was when the process is killed before the rename.
C4_AtomicSave ==
    [][(last'.save # "none") =>
         /\ \/ disk' = disk
            \/ /\ saved'.valid
               /\ saved'.bytes = disk'.bytes
               /\ Holds(disk', saved'.key, saved'.credentials, saved'.policies)
         /\ (last'.result = "killed before persist") => disk' = disk]_vars

C4_Witness ==
    /\ last.op \in MutatingOps
    /\ last.result = "killed before persist"
    /\ Untampered
    /\ DOMAIN saved.credentials # {}
    /\ Holds(disk, saved.key, saved.credentials, saved.policies)

\* C5: after every successful return of a mutating operation the payload of
\* the store file is the encoding of the in-memory maps.
C5_MemoryEqualsDisk ==
    (last.op \in MutatingOps /\ last.result = "Ok") =>
        Holds(disk, store.master_key, store.credentials, store.policies)

\* C6: a mutating operation whose save() fails returns the error, and the
\* file is not written (the save is not retried).
C6_FailedSaveReported ==
    [][(last'.op \in MutatingOps /\ last'.save = "failed") =>
         (last'.result = "Err(Io)" /\ disk' = disk)]_vars

C6_Witness ==
    /\ last.op = "increment_usage"
    /\ last.save = "failed"
    /\ last.result = "Err(Io)"

\* C7: init on a path where a file exists fails and leaves the file as it is.
C7_InitRefusesExistingFile ==
    [][(last'.op \in {"init", "cli_init"} /\ disk.exists) =>
         (last'.result # "Ok" /\ disk' = disk)]_vars

\* C8: increment_usage on a present id adds exactly 1 to its usage counter,
\* sets its updated_at to the current time, changes nothing else in the maps
\* and, when it returns Ok, the file holds the new maps; on an absent id it
\* returns the not-found error and changes neither the maps nor the file.
C8_IncrementUsage ==
    [][(last'.op = "increment_usage") =>
         IF last'.id \in DOMAIN store.credentials
         THEN /\ store'.open =>
                   /\ store'.credentials =
                        [store.credentials EXCEPT
                            ![last'.id].usage_counter = @ + 1,
                            ![last'.id].updated_at = now]
                   /\ store'.policies = store.policies
              /\ (last'.result = "Ok") =>
                   Holds(disk', store'.master_key, store'.credentials, store'.policies)
         ELSE /\ last'.result = "Err(Store(not found))"
              /\ store' = store
              /\ disk' = disk]_vars

C8_Witness ==
    /\ last.op = "increment_usage"
    /\ last.result = "Ok"
    /\ DOMAIN store.credentials = CredIds
    /\ DOMAIN store.policies # {}
    /\ store.credentials[last.id].usage_counter = 1
    /\ store.credentials[last.id].created_at = 0
    /\ store.credentials[last.id].updated_at = 1

\* C9: the read-only operations change neither the maps nor the file, and no
\* operation other than increment_usage changes the usage counter of a
\* credential that stays in the store.
C9_ReadOnlyAndCounterFrame ==
    [][/\ (last'.op \in ReadOps) => (store' = store /\ disk' = disk)
       /\ (last'.op # "increment_usage" /\ store.open /\ store'.open) =>
             \A id \in (DOMAIN store.credentials) \cap (DOMAIN store'.credentials) :
                store'.credentials[id].usage_counter = store.credentials[id].usage_counter]_vars

(***************************************************************************)
(* Properties of evaluate (specification SpecEval).                        *)
(***************************************************************************)
\* C10: for a single-use policy, a usage count above 0 gives Reject with the
\* single-use reason and no matched hook, whatever the hooks and
\* max_attempts; with usage count 0 the result is that of the max-attempts
\* check followed by the hooks.
C10_SingleUseFirst ==
    (evalOut # NoEval /\ evalIn.policy.single_use) =>
        IF evalIn.ctx.usage_count > 0
        THEN evalOut = Evaluation("Reject", "", <<>>,
                                  [k \in {"reason"} |-> "Single use policy violation"])
        ELSE IF evalIn.policy.max_attempts # NoneInt /\ 0 >= evalIn.policy.max_attempts
             THEN evalOut = Evaluation("Reject", "", <<>>,
                                       [k \in {"reason"} |-> "Max attempts exceeded"])
             ELSE evalOut = EvaluateHooks(evalIn.policy.hooks, 1, <<>>, evalIn.ctx)

\* A single-use rejection of a policy whose max_attempts is also exceeded and
\* whose first hook would fail.
C10_Witness ==
    /\ evalOut # NoEval
    /\ evalIn.policy.single_use
    /\ evalIn.ctx.usage_count > 0
    /\ evalIn.policy.max_attempts = 0
    /\ Len(evalIn.policy.hooks) = MaxHooks
    /\ ~Passed(evalIn.policy.hooks[1], evalIn.ctx)
    /\ evalOut.verdict = "Reject"
    /\ evalOut.details["reason"] = "Single use policy violation"

\* The two usage checks that precede the hooks.
SingleUseFires == evalIn.policy.single_use /\ evalIn.ctx.usage_count > 0

MaxAttemptsFires ==
    /\ evalIn.policy.max_attempts # NoneInt
    /\ evalIn.ctx.usage_count >= evalIn.policy.max_attempts

\* C11: when the single-use check does not fire, a policy with max_attempts
\* = N is rejected with the max-attempts reason and no matched hook exactly
\* when usage_count >= N (N = 0 included); otherwise (usage_count < N, or
\* max_attempts unset) the result is that of the hooks and is not a Reject.
C11_MaxAttempts ==
    (evalOut # NoEval /\ ~SingleUseFires) =>
        IF MaxAttemptsFires
        THEN evalOut = Evaluation("Reject", "", <<>>,
                                  [k \in {"reason"} |-> "Max attempts exceeded"])
        ELSE /\ evalOut = EvaluateHooks(evalIn.policy.hooks, 1, <<>>, evalIn.ctx)
             /\ evalOut.verdict # "Reject"

\* The limit reached exactly (usage_count = N > 0) on a single-use-free
\* policy whose first hook would pass.
C11_Witness ==
    /\ evalOut # NoEval
    /\ ~evalIn.policy.single_use
    /\ evalIn.policy.max_attempts = MaxCount
    /\ evalIn.ctx.usage_count = MaxCount
    /\ Len(evalIn.policy.hooks) >= 1
    /\ Passed(evalIn.policy.hooks[1], evalIn.ctx)
    /\ ~Panics(evalIn.policy.hooks[1], evalIn.ctx)
    /\ evalOut.verdict = "Reject"
    /\ evalOut.matched_hooks = <<>>
    /\ evalOut.details["reason"] = "Max attempts exceeded"

\* Whether a hook passes as its kind is defined: OnlyBefore(Instant t) iff
\* now < t, OnlyAfter(Instant t) iff now > t, OnlyWithin(Range) iff start <=
\* now <= end, OnlyFor(d) iff created_at is present and now <= created_at + d
\* with d the unsigned number of seconds; any other period shape fails.
HookPasses(hook, ctx) ==
    CASE hook.type = "onlyBefore" ->
           hook.period.type = "instant" /\ ctx.now < hook.period.value
      [] hook.type = "onlyAfter" ->
           hook.period.type = "instant" /\ ctx.now > hook.period.value
      [] hook.type = "onlyWithin" ->
           /\ hook.period.type = "range"
           /\ hook.period.start <= ctx.now
           /\ ctx.now <= hook.period.end
      [] OTHER ->
           ctx.created_at # NoneInt /\ ctx.now <= ctx.created_at + hook.duration_secs

\* The 0-based indices 0 .. n-1 in order.
Indices(n) == [i \in 1..n |-> i - 1]

\* C12: the verdict is Accept exactly when neither usage check fires and
\* every hook of the policy passes, and then matched_hooks lists every hook
\* index in declared order.
C12_AndSemantics ==
    (evalOut # NoEval) =>
        /\ (evalOut.verdict = "Accept") <=>
              /\ ~SingleUseFires
              /\ ~MaxAttemptsFires
              /\ \A i \in 1..Len(evalIn.policy.hooks) :
                    HookPasses(evalIn.policy.hooks[i], evalIn.ctx)
        /\ (evalOut.verdict = "Accept") =>
              evalOut.matched_hooks = Indices(Len(evalIn.policy.hooks))

\* The position (1-based) of the first hook that does not pass, 0 if none.
FirstFailing(hooks, ctx) ==
    IF \A i \in 1..Len(hooks) : HookPasses(hooks[i], ctx)
    THEN 0
    ELSE CHOOSE i \in 1..Len(hooks) :
           /\ ~HookPasses(hooks[i], ctx)
           /\ \A j \in 1..(i - 1) : HookPasses(hooks[j], ctx)

\* C13: when no usage check fires and hook i is the first hook that does not
\* pass, the verdict is Expired for OnlyBefore and OnlyFor, NotYetValid for
\* OnlyAfter, PolicyViolation with a reason for OnlyWithin, and matched_hooks
\* is exactly the indices before i, whatever the later hooks are.
C13_FirstFailingHookDecides ==
    LET f == FirstFailing(evalIn.policy.hooks, evalIn.ctx) IN
    (evalOut # NoEval /\ ~SingleUseFires /\ ~MaxAttemptsFires /\ f > 0) =>
        /\ evalOut.verdict =
              CASE evalIn.policy.hooks[f].type \in {"onlyBefore", "onlyFor"} -> "Expired"
                [] evalIn.policy.hooks[f].type = "onlyAfter" -> "NotYetValid"
                [] OTHER -> "PolicyViolation"
        /\ (evalOut.verdict = "PolicyViolation") => evalOut.violation # ""
        /\ evalOut.matched_hooks = Indices(f - 1)

Denials == {"Reject", "Expired", "NotYetValid", "PolicyViolation"}

IsWindow(hooks, a, b) ==
    /\ a < b
    /\ \/ hooks = <<[type |-> "onlyAfter", period |-> Instant(a)],
                    [type |-> "onlyBefore", period |-> Instant(b)]>>
       \/ hooks = <<[type |-> "onlyBefore", period |-> Instant(b)],
                    [type |-> "onlyAfter", period |-> Instant(a)]>>

\* C14: a validity window without usage limits gives Accept for a < now < b,
\* Expired for now >= b and NotYetValid for now <= a, in either order of the
\* two hooks.
C14_ValidityWindow ==
    \A a \in 0..MaxEvalTime, b \in 0..MaxEvalTime :
        (evalOut # NoEval /\ IsWindow(evalIn.policy.hooks, a, b)
           /\ evalIn.policy.max_attempts = NoneInt /\ ~evalIn.policy.single_use) =>
            evalOut.verdict =
                IF evalIn.ctx.now <= a THEN "NotYetValid"
                ELSE IF evalIn.ctx.now >= b THEN "Expired"
                ELSE "Accept"

\* The window (0, MaxEvalTime) with OnlyBefore declared first, evaluated
\* strictly inside it.
C14_Witness ==
    /\ evalOut # NoEval
    /\ evalIn.policy.hooks = <<[type |-> "onlyBefore", period |-> Instant(MaxEvalTime)],
                               [type |-> "onlyAfter", period |-> Instant(0)]>>
    /\ evalIn.ctx.now = 1
    /\ evalOut.verdict = "Accept"
    /\ evalOut.matched_hooks = <<0, 1>>

\* C15: a policy whose only hook is OnlyFor(d), without usage limits, gives
\* Accept when created_at is present and now <= created_at + d, and Expired
\* otherwise; with created_at absent the verdict is Expired.
C15_OnlyForAnchoring ==
    (/\ evalOut # NoEval
     /\ Len(evalIn.policy.hooks) = 1
     /\ evalIn.policy.hooks[1].type = "onlyFor") =>
        evalOut.verdict =
            IF /\ evalIn.ctx.created_at # NoneInt
               /\ evalIn.ctx.now <= evalIn.ctx.created_at + evalIn.policy.hooks[1].duration_secs
            THEN "Accept"
            ELSE "Expired"

\* C16: for a policy with a single hook and no usage limits, the verdict is
\* Accept for OnlyBefore(Instant t) iff now < t, for OnlyAfter(Instant t) iff
\* now > t, for OnlyWithin(Range) iff start <= now <= end (so never when
\* start > end), and OnlyFor(d) is accepted at now = created_at + d.
C16_BoundaryComparisons ==
    (evalOut # NoEval /\ Len(evalIn.policy.hooks) = 1) =>
        LET hook == evalIn.policy.hooks[1]
            ctx == evalIn.ctx
            accepted == evalOut.verdict = "Accept"
        IN /\ (hook.type = "onlyBefore" /\ hook.period.type = "instant") =>
                 (accepted <=> ctx.now < hook.period.value)
           /\ (hook.type = "onlyAfter" /\ hook.period.type = "instant") =>
                 (accepted <=> ctx.now > hook.period.value)
           /\ (hook.type = "onlyWithin" /\ hook.period.type = "range") =>
                 /\ accepted <=> (hook.period.start <= ctx.now /\ ctx.now <= hook.period.end)
                 /\ (hook.period.start > hook.period.end) => ~accepted
           /\ (/\ hook.type = "onlyFor"
               /\ ctx.created_at # NoneInt
               /\ ctx.now = ctx.created_at + hook.duration_secs) => accepted

\* OnlyBefore evaluated exactly at its instant: Expired.
C16_Witness ==
    /\ evalOut # NoEval
    /\ evalIn.policy.hooks = <<[type |-> "onlyBefore", period |-> Instant(1)]>>
    /\ evalIn.ctx.now = 1
    /\ evalOut.verdict = "Expired"

\* The period of the hook does not have the shape its kind reads.
Mismatched(hook) ==
    \/ hook.type \in {"onlyBefore", "onlyAfter"} /\ hook.period.type # "instant"
    \/ hook.type = "onlyWithin" /\ hook.period.type # "range"

\* C17: a hook whose period has the wrong shape (a Range or Duration given
\* to OnlyBefore or OnlyAfter, an Instant or Duration given to OnlyWithin)
\* never passes, so the policy is never accepted, and when evaluation stops
\* at it the verdict is the one of its kind.
C17_MismatchedPeriodFails ==
    (evalOut # NoEval) =>
        \A i \in 1..Len(evalIn.policy.hooks) :
            Mismatched(evalIn.policy.hooks[i]) =>
                /\ evalOut.verdict # "Accept"
                /\ \A k \in 1..Len(evalOut.matched_hooks) : evalOut.matched_hooks[k] # i - 1
                /\ (Len(evalOut.matched_hooks) = i - 1 /\ evalOut.verdict # "panic") =>
                      evalOut.verdict =
                          CASE evalIn.policy.hooks[i].type = "onlyBefore" -> "Expired"
                            [] evalIn.policy.hooks[i].type = "onlyAfter" -> "NotYetValid"
                            [] OTHER -> "PolicyViolation"

\* OnlyAfter on a Duration period, reached after a hook that passed.
C17_Witness ==
    /\ evalOut # NoEval
    /\ evalIn.policy.hooks = <<[type |-> "onlyWithin", period |-> Range(0, 1)],
                               [type |-> "onlyAfter", period |-> Duration(1)]>>
    /\ evalIn.ctx.now = 1
    /\ evalOut.verdict = "NotYetValid"
    /\ evalOut.matched_hooks = <<0>>

C19_UnreadFields ==
    (evalOut # NoEval) =>
        LET other == evaluate(WithFields(evalIn.policy, DefaultFields),
                              [evalIn.ctx EXCEPT !.last_used_at = NoneInt])
        IN /\ evalOut.verdict = other.verdict
           /\ evalOut.violation = other.violation
           /\ evalOut.matched_hooks = other.matched_hooks

\* Every unread field differs from its fixed value, on an OnlyBefore hook
\* evaluated exactly at its instant: Expired, although clock_skew_secs of
\* the compared policy exceeds every distance in time.
C19_Witness ==
    /\ evalOut # NoEval
    /\ evalIn.policy.id = "p2"
    /\ evalIn.policy.timezone = "Asia/Tokyo"
    /\ evalIn.policy.clock_skew_secs = 0
    /\ evalIn.policy.version = 2
    /\ evalIn.ctx.last_used_at = 0
    /\ evalIn.policy.hooks = <<[type |-> "onlyBefore", period |-> Instant(1)]>>
    /\ evalIn.ctx.now = 1
    /\ evalOut.verdict = "Expired"


(***************************************************************************)
(* Claims about the maps of the store.                                     *)
(***************************************************************************)
\* The ids of a sequence of serialized map entries are pairwise distinct.
DistinctIds(entries) ==
    \A i, j \in 1..Len(entries) : i # j => entries[i][1] # entries[j][1]

\* Every record of the store is filed under its own id, and the payload in
\* the file written by save() lists no id twice.
UniqueIds ==
    /\ \A k \in DOMAIN store.credentials : store.credentials[k].id = k
    /\ \A k \in DOMAIN store.policies : store.policies[k].id = k
    /\ (saved.valid /\ disk.exists /\ Len(disk.bytes) = Len(saved.bytes)) =>
          /\ DistinctIds(disk.bytes[5].pt.credentials)
          /\ DistinctIds(disk.bytes[5].pt.policies)

\* add_credential / add_policy returned Ok: the record handed over is the
\* one now filed under its id, every other entry of both maps is as before,
\* and the map grew by the id if it was new and not at all if it was present.
AddReplaces ==
    /\ (last'.op = "add_credential" /\ last'.result = "Ok") =>
          /\ DOMAIN store'.credentials = DOMAIN store.credentials \cup {last'.id}
          /\ store'.credentials[last'.id] = last'.arg
          /\ \A k \in DOMAIN store.credentials \ {last'.id} :
                store'.credentials[k] = store.credentials[k]
          /\ store'.policies = store.policies
          /\ (last'.id \in DOMAIN store.credentials) =>
                Cardinality(DOMAIN store'.credentials) = Cardinality(DOMAIN store.credentials)
    /\ (last'.op = "add_policy" /\ last'.result = "Ok") =>
          /\ DOMAIN store'.policies = DOMAIN store.policies \cup {last'.id}
          /\ store'.policies[last'.id] = last'.arg
          /\ \A k \in DOMAIN store.policies \ {last'.id} :
                store'.policies[k] = store.policies[k]
          /\ store'.credentials = store.credentials
          /\ (last'.id \in DOMAIN store.policies) =>
                Cardinality(DOMAIN store'.policies) = Cardinality(DOMAIN store.policies)

\* C21: each id occurs at most once in the credential map and in the policy
\* map, in memory and in the saved payload; adding a record under an id that
\* is present replaces the old record without growing the map, so a get of
\* that id finds the record just added.
C21_IdUniqueness == [](UniqueIds) /\ [][AddReplaces]_vars

\* A credential was added under an id that was present, next to another
\* credential: the map still holds two entries, and the record under the id
\* is the one just added (created at time 1, secret s2).
C21_Witness ==
    /\ last.op = "add_credential" /\ last.result = "Ok"
    /\ last.entries[1] = 2 /\ Cardinality(DOMAIN store.credentials) = 2
    /\ last.arg.created_at = 1 /\ last.arg.secret.data = "s2"
    /\ store.credentials[last.id] = last.arg


\* From one state of the open store to the next, no credential that stays
\* in the map has its usage counter lowered.
CounterKept ==
    \A id \in DOMAIN store.credentials \cap DOMAIN store'.credentials :
        store'.credentials[id].usage_counter >= store.credentials[id].usage_counter

\* C23: as long as a credential id stays in the store, its usage counter
\* never decreases, whatever store operation is applied (add_credential
\* under the same id, increment_usage, policy operations, save).
C23_MonotonicUsageCounter == [][CounterKept]_vars


(***************************************************************************)
(* Claims about the commands.                                              *)
(***************************************************************************)
\* What a command finds when it opens the file dsk with the passphrase the
\* store was created with.
Stored(dsk) == open(dsk, "pw1").store

\* The credential refers to a policy that the store does not hold.
Dangling(st, id) ==
    /\ id \in DOMAIN st.credentials
    /\ st.credentials[id].policy_id # NoneStr
    /\ st.credentials[id].policy_id \notin DOMAIN st.policies

\* A policy is removed whatever refers to it, and the credentials are as
\* before; a get of a credential whose policy is absent prints the secret
\* and, when its save succeeds, has added one to the usage counter.
WeakReference ==
    LET before == Stored(disk)
        after == Stored(disk')
    IN /\ (last'.op = "cli_policy_remove" /\ last'.id \in DOMAIN before.policies
              /\ last'.save = "ok") =>
             /\ last'.result = "Ok"
             /\ after.credentials = before.credentials
             /\ after.policies = Remove(before.policies, last'.id)
       /\ (last'.op = "cli_get" /\ Dangling(before, last'.id)) =>
             /\ last'.out = before.credentials[last'.id].secret.data
             /\ (last'.save = "ok") => last'.result = "Ok"
             /\ last'.result \notin {"panic", "Err(Credential not found)"}
             /\ (last'.save = "ok") =>
                   after.credentials[last'.id].usage_counter =
                       before.credentials[last'.id].usage_counter + 1

\* C22: remove_policy succeeds on a policy that credentials still refer to
\* and leaves those credentials, policy_id included, unchanged; the get flow
\* treats a credential whose policy_id names an absent policy as having no
\* enforced policy: the secret is released and the usage incremented,
\* without any failure.
C22_WeakPolicyReference == [][WeakReference]_vars

\* A get has released the secret of c1 and counted the use while c1 refers
\* to policy p1 and the store holds no policy.
C22_Witness ==
    /\ last.op = "cli_get" /\ last.id = "c1" /\ last.result = "Ok" /\ last.out = "s1"
    /\ Dangling(Stored(disk), "c1")
    /\ Stored(disk).credentials["c1"].policy_id = "p1"
    /\ Stored(disk).credentials["c1"].usage_counter = 1


\* A rotate whose save succeeded leaves, in the file, the credential with the
\* new secret bytes and updated_at = now and every other field as before,
\* next to the same other credentials and the same policies; a rotate of an
\* id the store does not hold fails and leaves the file alone.
RotationFrame ==
    LET before == Stored(disk)
        after == Stored(disk')
        id == last'.id
    IN (last'.op = "cli_rotate" /\ open(disk, "pw1").result = "Ok") =>
         IF id \in DOMAIN before.credentials
         THEN (last'.save = "ok") =>
                /\ last'.result = "Ok"
                /\ DOMAIN after.credentials = DOMAIN before.credentials
                /\ after.credentials[id].secret.data = NewSecret
                /\ after.credentials[id].updated_at = now
                /\ after.credentials[id].secret.type_ = before.credentials[id].secret.type_
                /\ after.credentials[id].id = before.credentials[id].id
                /\ after.credentials[id].label = before.credentials[id].label
                /\ after.credentials[id].tags = before.credentials[id].tags
                /\ after.credentials[id].created_at = before.credentials[id].created_at
                /\ after.credentials[id].policy_id = before.credentials[id].policy_id
                /\ after.credentials[id].usage_counter = before.credentials[id].usage_counter
                /\ \A k \in DOMAIN before.credentials \ {id} :
                      after.credentials[k] = before.credentials[k]
                /\ after.policies = before.policies
         ELSE /\ last'.result = "Err(Credential not found)"
              /\ disk' = disk

\* C27: rotating an existing credential replaces its secret bytes and
\* refreshes updated_at while id, label, tags, created_at, policy_id and
\* usage_counter stay the same and the number of credentials is unchanged;
\* the result is what the saved file holds; rotating an absent id fails and
\* leaves the store unchanged.
C27_RotationFrame == [][RotationFrame]_vars

\* A used credential that refers to a policy was rotated at time 1, next to
\* a second credential: the file holds it with the new secret, updated at
\* 1, created at 0, with its policy_id and its usage count of 1.
C27_Witness ==
    /\ last.op = "cli_rotate" /\ last.id = "c1" /\ last.result = "Ok"
    /\ DOMAIN Stored(disk).credentials = {"c1", "c2"}
    /\ Stored(disk).credentials["c1"].secret.data = NewSecret
    /\ Stored(disk).credentials["c1"].updated_at = 1
    /\ Stored(disk).credentials["c1"].created_at = 0
    /\ Stored(disk).credentials["c1"].policy_id = "p1"
    /\ Stored(disk).credentials["c1"].usage_counter = 1


\* A command that stores a policy under an id the store holds leaves it with
\* a greater version, greater by one for a policy update; a policy update
\* that changes no field leaves the file as it was.
VersionCounts ==
    LET before == Stored(disk)
        after == Stored(disk')
        id == last'.id
    IN (last'.op \in {"cli_policy_update", "cli_policy_add"}
          /\ id \in DOMAIN before.policies) =>
         /\ (last'.op = "cli_policy_add" /\ last'.save = "ok"
               /\ id \in DOMAIN after.policies) =>
               after.policies[id].version > before.policies[id].version
         /\ (last'.op = "cli_policy_update" /\ last'.save = "ok") =>
               after.policies[id].version = before.policies[id].version + 1
         /\ (last'.op = "cli_policy_update" /\ last'.out = "No changes requested") =>
               disk' = disk
         /\ (last'.op = "cli_policy_update" /\ last'.arg # NoArg) =>
               (ApplyOptions(before.policies[id], last'.arg) = before.policies[id]
                  => disk' = disk)

\* C28: every update of a stored policy (a policy update that changes a
\* field, or adding a policy again under an id that exists) leaves the
\* stored version strictly greater than before, by exactly 1 for a policy
\* update; an update request that changes nothing leaves the policy, its
\* version and the store file unchanged.
C28_PolicyVersionCounter == [][VersionCounts]_vars


(***************************************************************************)
(* Claims about decryption (specification SpecCrypto).                     *)
(***************************************************************************)
\* decrypt was called with a key or associated data other than those of the
\* encryption, or on a blob that was altered or cut.
MustFail ==
    /\ evalOut # NoEval
    /\ \/ evalIn.key # evalIn.enc.key
       \/ evalIn.associated_data # evalIn.enc.associated_data
       \/ evalIn.damage # "none"

\* C24: decrypt fails with one and the same error for a tag mismatch, a
\* wrong key, wrong associated data and truncated input, a blob shorter than
\* the nonce included, and returns no plaintext in any of these cases.
C24_GenericDecryptionFailure ==
    MustFail => /\ ~evalOut.ok
                /\ evalOut.pt = <<>>
                /\ evalOut.err = "Crypto(Decryption failed)"

\* C26: evaluate on any policy and context returns a verdict; it does not
\* end in a panic.
C26_NoAbort == evalOut.verdict # "panic"


(***************************************************************************)
(* Claims about the interchange form (specification SpecJson).             *)
(***************************************************************************)
\* C29: serializing a record to the JSON interchange form and deserializing
\* it gives back an equal record: for a Policy the id, clock_skew_secs,
\* single_use and the hooks (count, order, variant and period) are
\* preserved; for a Credential the id, label, secret type and secret bytes.
C29_InterchangeRoundTrip ==
    (evalOut # NoEval) =>
       /\ evalOut.ok
       /\ evalOut.v = evalIn.value
       /\ (evalIn.kind = "policy") =>
             /\ evalOut.v.id = evalIn.value.id
             /\ evalOut.v.clock_skew_secs = evalIn.value.clock_skew_secs
             /\ evalOut.v.single_use = evalIn.value.single_use
             /\ Len(evalOut.v.hooks) = Len(evalIn.value.hooks)
             /\ \A i \in 1..Len(evalIn.value.hooks) : evalOut.v.hooks[i] = evalIn.value.hooks[i]
       /\ (evalIn.kind = "credential") =>
             /\ evalOut.v.id = evalIn.value.id
             /\ evalOut.v.label = evalIn.value.label
             /\ evalOut.v.secret.type_ = evalIn.value.secret.type_
             /\ evalOut.v.secret.data = evalIn.value.secret.data

\* A single-use policy with skew 120, no timezone and two hooks, an
\* onlyAfter over a range and an onlyFor of the largest duration, was
\* written and read back.
C29_Witness ==
    /\ evalIn.kind = "policy"
    /\ evalOut # NoEval /\ evalOut.ok
    /\ evalIn.value.single_use /\ evalIn.value.clock_skew_secs = 120
    /\ evalIn.value.timezone = NoneStr
    /\ evalIn.value.hooks = <<[type |-> "onlyAfter", period |-> Range(0, MaxEvalTime)],
                              [type |-> "onlyFor", duration_secs |-> 2 * I64_MAX + 1]>>
    /\ evalOut.v.hooks = evalIn.value.hooks


(***************************************************************************)
(* Claims about buffers (specification SpecMemory).                        *)
(***************************************************************************)
\* C30: every buffer that holds a passphrase, a derived key or a plaintext
\* copy of secret material is overwritten with zeros before it is released,
\* on every exit path.
C30_WipeOnDestruction ==
    (evalOut # NoEval) => \A b \in evalOut.released : b.wiped

(***************************************************************************)
(* Claims about the get flow (specification SpecGet).                      *)
(***************************************************************************)
\* The get command of this step found the store and, in it, the credential.
GetFound ==
    /\ last'.op = "cli_get"
    /\ open(disk, "pw1").result = "Ok"
    /\ last'.result # "Err(Crypto(Decryption failed))"
    /\ last'.id \in DOMAIN Stored(disk).credentials

\* The policy the store holds for the credential, if it holds one.
Bound(st, cred) == cred.policy_id # NoneStr /\ cred.policy_id \in DOMAIN st.policies

\* The verdict of the policy of the credential at the time of the step.
VerdictFor(st, cred) ==
    evaluate(st.policies[cred.policy_id],
             [now |-> now, created_at |-> cred.created_at,
              last_used_at |-> cred.updated_at, usage_count |-> cred.usage_counter]).verdict

\* The usage counter of the credential id in the file dsk.
CounterIn(dsk, id) == Stored(dsk).credentials[id].usage_counter

GetOrdering ==
    GetFound =>
      LET st == Stored(disk)
          id == last'.id
          cred == st.credentials[id]
          denied == Bound(st, cred) /\ VerdictFor(st, cred) # "Accept"
      IN /\ denied =>
              /\ ~Printed(last'.out)
              /\ evalOut' = evalOut
              /\ disk' = disk
         /\ ~denied =>
              /\ last'.out = cred.secret.data
              /\ evalOut'.released = evalOut.released + 1
              /\ (last'.result = "Ok") =>
                    /\ CounterIn(disk', id) = cred.usage_counter + 1
                    /\ Stored(disk').policies = st.policies
                    /\ DOMAIN Stored(disk').credentials = DOMAIN st.credentials
         /\ (disk' # disk) =>
              /\ Printed(last'.out)
              /\ open(disk', "pw1").result = "Ok"
              /\ CounterIn(disk', id) = cred.usage_counter + 1

\* C31: in the get flow a verdict other than Accept of a policy the store
\* holds leaves the secret unprinted, the usage counter as it was and the
\* file unchanged; on Accept, or with no policy to apply, the secret is
\* printed and, when the command returns Ok, the file holds the counter
\* grown by exactly 1; the counter never grows without the secret having
\* been printed.
C31_GetFlowOrdering == [][GetOrdering]_vars

\* A get was denied after an earlier get had released the secret.
C31_Witness ==
    /\ last.op = "cli_get"
    /\ last.out = "ACCESS DENIED"
    /\ evalOut.released = 1
    /\ CounterIn(disk, "c1") = 1

\* The policy the file holds for the credential c1, when it holds both.
HeldPolicy == Stored(disk).policies[Stored(disk).credentials["c1"].policy_id]

\* The file holds c1 and the policy c1 refers to.
HoldsBoth ==
    /\ open(disk, "pw1").result = "Ok"
    /\ "c1" \in DOMAIN Stored(disk).credentials
    /\ Bound(Stored(disk), Stored(disk).credentials["c1"])

\* The secret of a single-use credential has been printed at most once.
ReleasedOnce == (HoldsBoth /\ HeldPolicy.single_use) => evalOut.released <= 1

\* A get of a single-use credential whose stored counter is above 0 is
\* denied with Reject.
DeniedAfterUse ==
    (GetFound /\ last'.id = "c1" /\ HoldsBoth /\ HeldPolicy.single_use
       /\ CounterIn(disk, "c1") > 0)
    => /\ last'.out = "ACCESS DENIED"
       /\ VerdictFor(Stored(disk), Stored(disk).credentials["c1"]) = "Reject"
       /\ evalOut' = evalOut

\* C32: over any sequence of get commands on a credential bound to a stored
\* single-use policy the secret is printed at most once, and every get
\* after the first successful one is denied with Reject.
C32_SingleUseEndToEnd == [](ReleasedOnce) /\ [][DeniedAfterUse]_vars

\* The secret of a credential limited to N attempts has been printed at
\* most N times.
ReleasedWithinLimit ==
    (HoldsBoth /\ HeldPolicy.max_attempts # NoneInt)
    => evalOut.released <= HeldPolicy.max_attempts

\* After N releases every get of the credential is denied.
DeniedAtLimit ==
    (GetFound /\ last'.id = "c1" /\ HoldsBoth /\ HeldPolicy.max_attempts # NoneInt
       /\ evalOut.released >= HeldPolicy.max_attempts)
    => /\ last'.out = "ACCESS DENIED"
       /\ evalOut' = evalOut

\* C33: over any sequence of get commands, starting from usage counter 0,
\* on a credential bound to a stored policy with max_attempts = N the secret
\* is printed at most N times, and after N releases every get is denied.
C33_UsageLimitEndToEnd == [](ReleasedWithinLimit) /\ [][DeniedAtLimit]_vars

(***************************************************************************)
(* Claims about the terminal interface (specification SpecTui).            *)
(***************************************************************************)
\* The step is a handler of App that shows or copies the secret of the
\* selected credential.
Reveals ==
    /\ last'.op \in {"toggle_secret", "copy_secret"}
    /\ evalIn.selected_cred # NoCred
    /\ last'.out = evalIn.selected_cred.secret.data

\* The store holds a policy for the selected credential and its verdict is
\* not Accept.
GateClosed ==
    /\ evalIn.selected_cred.id \in DOMAIN store.credentials
    /\ Bound(store, store.credentials[evalIn.selected_cred.id])
    /\ VerdictFor(store, store.credentials[evalIn.selected_cred.id]) # "Accept"

\* C34: toggle_secret and copy_secret reveal the secret of a credential only
\* if the policy the store holds for it, when it holds one, gives Accept.
C34_PolicyGateOnEveryReveal == [][Reveals => ~GateClosed]_vars

(***************************************************************************)
(* Claims about failed saves (specification Spec).                         *)
(***************************************************************************)
\* A mutating operation whose save() failed leaves both maps as they were
\* before the call.
RolledBack ==
    (last'.op \in MutatingOps /\ last'.save = "failed" /\ store.open)
    => /\ store'.credentials = store.credentials
       /\ store'.policies = store.policies

\* C35: when save() fails inside add_credential, remove_credential,
\* add_policy, remove_policy or increment_usage, the in-memory maps after
\* the failed call equal the maps before the call.
C35_NoDivergenceAfterFailedSave == [][RolledBack]_vars

(***************************************************************************)
(* Claims about removal (specification Spec).                              *)
(***************************************************************************)
\* The map after is the map before without the entry under id.
Without(before, after, id) ==
    /\ DOMAIN after = DOMAIN before \ {id}
    /\ \A k \in DOMAIN after : after[k] = before[k]

\* A removal of the entry under an id of the map before: nothing if the id
\* is absent, that entry alone if it is present.
RemovalOf(before, after, other_before, other_after) ==
    IF last'.id \notin DOMAIN before
    THEN /\ last'.result = "Ok"
         /\ last'.save = "none"
         /\ disk' = disk
         /\ store' = store
    ELSE /\ last'.save # "none"
         /\ (last'.save # "killed") =>
               /\ Without(before, after, last'.id)
               /\ other_after = other_before
         /\ (last'.result = "Ok") =>
               Holds(disk', store'.master_key, store'.credentials, store'.policies)

RemoveFrame ==
    /\ (last'.op = "remove_credential" /\ store.open)
       => RemovalOf(store.credentials, store'.credentials, store.policies, store'.policies)
    /\ (last'.op = "remove_policy" /\ store.open)
       => RemovalOf(store.policies, store'.policies, store.credentials, store'.credentials)

\* C37: remove_credential and remove_policy with an absent id return Ok
\* without calling save() and leave the maps and the file as they were;
\* with a present id they delete that entry alone and write the file.
C37_RemoveAbsentIsNoOp == [][RemoveFrame]_vars

\* A removal of an absent id from a store that holds other entries.
C37_Witness ==
    /\ last.op = "remove_credential"
    /\ last.id = "c2"
    /\ last.save = "none"
    /\ last.result = "Ok"
    /\ DOMAIN store.credentials = {"c1"}
    /\ DOMAIN store.policies = {"p1"}

(***************************************************************************)
(* Claims about two owners (specification SpecOwners).                     *)
(***************************************************************************)
\* A save() that succeeds leaves the file holding the maps of the instance
\* that saved, whatever the file held and whatever the other instance
\* holds: a credential that only the other instance holds is not in the
\* file, and a usage counter is the one of the instance that saved.
LastWriterWins ==
    (last'.op \in MutatingOps /\ last'.save = "ok") =>
       /\ Holds(disk', store'.master_key, store'.credentials, store'.policies)
       /\ Stored(disk').credentials = store'.credentials
       /\ evalIn.open =>
             \A id \in DOMAIN evalIn.credentials :
                /\ (id \notin DOMAIN store'.credentials)
                      => id \notin DOMAIN Stored(disk').credentials
                /\ (id \in DOMAIN store'.credentials)
                      => CounterIn(disk', id) = store'.credentials[id].usage_counter

\* C36: when two instances opened from the same file each perform a
\* mutation, each save() replaces the whole file with the maps of its
\* instance, with no version check; after both saves the file equals the
\* maps of the instance that saved last, and the mutation of the other
\* instance is absent from it.
C36_LostUpdateBetweenOwners == [][LastWriterWins]_vars

\* Both instances are open, every save() so far has succeeded, the waiting
\* instance has added c2 and incremented c1, and the file, written last by
\* the running instance, holds neither.
C36_Witness ==
    /\ store.open /\ evalIn.open
    /\ nfail = 0
    /\ last.op = "increment_usage" /\ last.save = "ok"
    /\ DOMAIN evalIn.credentials = {"c1", "c2"}
    /\ DOMAIN Stored(disk).credentials = {"c1"}
    /\ DOMAIN store.credentials = {"c1"}
    /\ evalIn.credentials["c1"].usage_counter = 1
    /\ store.credentials["c1"].usage_counter = 1
    /\ CounterIn(disk, "c1") = 1

(***************************************************************************)
(* Claims about open (specification SpecOpen).                             *)
(***************************************************************************)
\* The file is long enough for its length prefix and the header it announces.
LongEnough ==
    /\ disk.exists
    /\ Len(disk.bytes) >= LEN_PREFIX
    /\ Len(disk.bytes) >= LEN_PREFIX + disk.bytes[1]

\* The header has both of its fields.
HeaderParses == LongEnough /\ disk.bytes[1] >= 2

\* The bytes of the file after the header.
PayloadOf(bytes) == SubSeq(bytes, LEN_PREFIX + bytes[1] + 1, Len(bytes))

\* The key is derived and the payload has its nonce.
Decrypts ==
    /\ HeaderParses
    /\ ValidSalt(disk.bytes[3])
    /\ Len(PayloadOf(disk.bytes)) >= NONCE_LEN

\* The tag of the payload is the tag of its nonce and ciphertext under the
\* key of the passphrase and the salt, with the header bytes of the file as
\* associated data.
Authentic(passphrase) ==
    /\ Decrypts
    /\ Len(PayloadOf(disk.bytes)) = NONCE_LEN + 2
    /\ PayloadOf(disk.bytes)[3] =
          Mac([p |-> passphrase, s |-> disk.bytes[3]], PayloadOf(disk.bytes)[1],
              SubSeq(disk.bytes, LEN_PREFIX + 1, LEN_PREFIX + disk.bytes[1]),
              PayloadOf(disk.bytes)[2])

\* The error of open for each kind of unusable file.
OpenClassified ==
    (last.op = "open") =>
       /\ (~disk.exists) => last.result = "Err(Io(NotFound))"
       /\ (disk.exists /\ Len(disk.bytes) < LEN_PREFIX)
             => last.result = "Err(Io(File too short))"
       /\ (disk.exists /\ Len(disk.bytes) >= LEN_PREFIX /\ ~LongEnough)
             => last.result = "Err(Io(File truncated))"
       /\ (LongEnough /\ ~HeaderParses) => last.result = "Err(Serialization)"
       /\ (Decrypts /\ ~Authentic(last.id))
             => last.result = "Err(Crypto(Decryption failed))"
       /\ (Authentic(last.id)
             /\ ~deserialize_payload(PayloadOf(disk.bytes)[2].pt).ok)
             => last.result = "Err(Serialization)"
       /\ (last.result # "Ok") => ~store.open

\* open does not write the file.
OpenReadsOnly == (last'.op = "open") => disk' = disk

\* C38: open fails with not-found when the file is missing, with an I/O
\* error for a file shorter than its length prefix or than the header it
\* announces (whatever the passphrase and the salt, so before any key is
\* derived), with a serialization error when the header does not parse,
\* with the generic Crypto("Decryption failed") when authentication fails,
\* and with a serialization error when the decrypted payload does not
\* parse; it never modifies the file.
C38_OpenFailureClassification == [](OpenClassified) /\ [][OpenReadsOnly]_vars

\* A file cut inside its header was opened with the wrong passphrase and
\* reported as truncated.
C38_Witness ==
    /\ last.op = "open"
    /\ last.id = "pw2"
    /\ disk.exists /\ Len(disk.bytes) = 2
    /\ last.result = "Err(Io(File truncated))"

(***************************************************************************)
(* Claims about the arithmetic of OnlyFor (specification SpecEval).        *)
(***************************************************************************)
\* evaluate returned for a policy whose only hook is OnlyFor, with
\* created_at present and no usage limit in the way.
OnlyForDecided ==
    /\ evalOut # NoEval
    /\ evalOut.verdict \notin {"panic", "Reject"}
    /\ Len(evalIn.policy.hooks) = 1
    /\ evalIn.policy.hooks[1].type = "onlyFor"
    /\ evalIn.ctx.created_at # NoneInt

\* C39: for every unsigned 64-bit duration_secs d, the values above the
\* signed range included, OnlyFor(d) passes iff now <= created_at + d with d
\* a non-negative number of seconds: the deadline is never earlier than
\* created_at, so an evaluation at now = created_at passes.
C39_OnlyForDurationArithmetic ==
    OnlyForDecided =>
       /\ (evalOut.verdict = "Accept")
             <=> (evalIn.ctx.now <= evalIn.ctx.created_at + evalIn.policy.hooks[1].duration_secs)
       /\ (evalIn.ctx.now = evalIn.ctx.created_at) => evalOut.verdict = "Accept"

====
